---- MODULE Spec2Model ----
(***************************************************************************)
(* Novel Diver: the story continuation pipeline (story_engine.py,          *)
(* config.py), the session history (decision.py) and the session           *)
(* lifecycle that drives them (app.py).                                    *)
(*                                                                         *)
(* Texts are TLA+ strings; the Python string methods the code relies on    *)
(* (strip, lower, split, find, re.match) are defined character by          *)
(* character below.                                                        *)
(***************************************************************************)
EXTENDS Integers, Sequences, FiniteSets, TLC

VARIABLES
    p_response,     \* _parse_response: the raw text handed to the parser
    p_result,       \* _parse_response: None or the returned (story_text, options)
    r_max_retries,  \* retry_with_backoff: max_retries argument
    r_base_delay,   \* retry_with_backoff: base_delay argument
    r_attempt,      \* retry_with_backoff: loop variable `attempt`
    r_pc,           \* retry_with_backoff: "loop" | "returned" | "raised" ("idle": not running)
    r_calls,        \* retry_with_backoff: outcomes of the calls of func made so far
    r_sleeps,       \* retry_with_backoff: the time.sleep() arguments so far
    r_result,       \* retry_with_backoff: None, the returned value or the raised error
    authenticated,        \* st.session_state.authenticated
    user_data,            \* st.session_state.user_data: the user id ("guest" for a guest)
    story_history,        \* st.session_state.story_history
    current_character,    \* st.session_state.current_character
    current_options,      \* st.session_state.current_options
    story_started,        \* st.session_state.story_started
    waiting_for_choice,   \* st.session_state.waiting_for_choice
    show_character_form,  \* st.session_state.show_character_form
    api_configured,       \* st.session_state.api_configured
    last_story_error,     \* st.session_state.last_story_error
    current_story_id,     \* st.session_state.current_story_id
    user_stories,         \* auth: the rows of table user_stories, in insertion order
    demo_mode,            \* os.environ["DEMO_MODE"] == "true"
    api_keys,             \* os.environ: the backends whose API key is set
    last_op,              \* the handler that ran last: "start_new_story", "make_decision",
                          \* "restart_story", or "other" for every other handler
    last_generation,      \* what _generate_with_retry returned or raised in that handler
    c_keys,         \* Config: the backends whose key attribute is set
    c_available,    \* Config.available_apis
    c_cache,        \* Config._clients_cache: backend identifier -> client handle
    c_next,         \* the number of client objects created so far
    c_inits,        \* successful _initialize_client calls per backend since the last invalidation
    c_returned,     \* handles get_llm_client returned per backend since the last invalidation
    c_call,         \* the last get_llm_client call: its arguments, the Config it saw, its result
    ch_character,   \* Character: the object under validate() / to_prompt()
    ch_valid,       \* Character.validate(): None or the is_valid it returned
    ch_prompt,     \* Character.to_prompt(): None or the string it returned
    h_history,      \* StoryHistory: the object under test
    h_roundtrip,    \* None or StoryHistory.from_json(h_history.to_json())
    h_context,     \* None or the last get_recent_context call on h_history: its argument and its result
    t_store,        \* the prompts directory: file name -> state of the file
    t_world,        \* load_world_template: None or the world_type argument of the last call
    t_result,      \* load_world_template: None or what the last call returned or raised
    e_demo,         \* os.environ: DEMO_MODE is "true"
    e_available,    \* config.available_apis when the engine is built
    e_engine,       \* StoryEngine: None or the engine _initialize_client left
    e_call,        \* None or the last start_story / continue_story call: prompt, outcome, result
    g_api,          \* the backend of the engine whose generate_func runs
    g_attempt,      \* `attempt` of retry_with_backoff around generate_func
    g_model,        \* position in models_to_try of the model posted to next
    g_posted,       \* the models posted to in the running attempt
    g_answers,      \* what the endpoint answered in the running attempt
    g_sleeps,       \* the delays slept between attempts
    g_result,      \* what _generate_with_retry returned or raised, None while it runs
    k_key,          \* the credential configured for each backend, NoneStr when unset
    k_available,    \* config.available_apis
    k_cache,        \* config._clients_cache: the credential each cached client was built from
    k_pending,      \* the set_and_validate_api_key call that has cleared the cache and is validating its key
    k_call,        \* what the last get_llm_client call returned
    u_clock,        \* the system clock, in ticks after the start of the observation
    u_chunks,      \* story_chunks of the StoryHistory whose chunks get identifiers
    s_rows,         \* the user_stories table
    s_user,         \* user_id of the signed-in user of the session at the table
    s_history,      \* st.session_state.story_history of that session
    s_story_id,     \* st.session_state.current_story_id of that session
    s_starts,       \* how many stories that session has started
    s_call,        \* the last direct call of a UserAuth story method and its result
    x_keys,         \* the backends whose key is in os.environ
    x_demo,         \* os.environ[DEMO_MODE] is set to true
    x_configured,   \* st.session_state.api_configured of each browser session
    x_backend,      \* the backend of the engine each browser session built last
    x_last,        \* the browser session that acted last, and its button
    p_chapters,     \* len(story_history.story_chunks), 0 with no history
    p_per_page,     \* st.session_state.chapters_per_page
    p_current_page,  \* st.session_state.current_page
    p_last,        \* the handler that ran last and the page it found
    a_sessions,     \* the rows of the user_sessions table
    a_clock,        \* CURRENT_TIMESTAMP, in days
    a_result,       \* the last call of the session API and what it returned
    a_logged_out,   \* the session ids logout_user returned True for
    a_ui           \* authentication part of st.session_state

\* Python's None: where an object is expected, and where a string is expected
None == [none |-> TRUE]
NoneStr == "<None>"

----------------------------------------------------------------------------
(* Python string primitives *)

CharAt(s, i) == SubSeq(s, i, i)

Whitespace == {" ", "\n", "\t", "\r"}

Max(a, b) == IF a >= b THEN a ELSE b
Min(a, b) == IF a <= b THEN a ELSE b

\* str.lstrip() / str.rstrip() / str.strip()
RECURSIVE lstrip(_)
lstrip(s) ==
    IF Len(s) > 0 /\ CharAt(s, 1) \in Whitespace
    THEN lstrip(SubSeq(s, 2, Len(s)))
    ELSE s

RECURSIVE rstrip(_)
rstrip(s) ==
    IF Len(s) > 0 /\ CharAt(s, Len(s)) \in Whitespace
    THEN rstrip(SubSeq(s, 1, Len(s) - 1))
    ELSE s

strip(s) == rstrip(lstrip(s))

\* str.find(sub): the 1-based index of the first occurrence, 0 when absent
find(s, sub) ==
    LET hits == {i \in 1..(Len(s) - Len(sub) + 1) : SubSeq(s, i, i + Len(sub) - 1) = sub}
    IN  IF hits = {} THEN 0 ELSE CHOOSE i \in hits : \A j \in hits : i <= j

\* `sub in s`
Contains(s, sub) == find(s, sub) # 0

\* str.split(sep): the pieces between successive occurrences of sep
RECURSIVE split(_, _)
split(s, sep) ==
    LET i == find(s, sep)
    IN  IF i = 0
        THEN <<s>>
        ELSE <<SubSeq(s, 1, i - 1)>> \o split(SubSeq(s, i + Len(sep), Len(s)), sep)

\* str.lower() on the letters that occur in the modelled texts
UpperToLower ==
    [c \in {"A","B","C","D","E","F","G","H","I","J","K","L","M",
            "N","O","P","Q","R","S","T","U","V","W","X","Y","Z"} |->
       CASE c = "A" -> "a" [] c = "B" -> "b" [] c = "C" -> "c" [] c = "D" -> "d"
         [] c = "E" -> "e" [] c = "F" -> "f" [] c = "G" -> "g" [] c = "H" -> "h"
         [] c = "I" -> "i" [] c = "J" -> "j" [] c = "K" -> "k" [] c = "L" -> "l"
         [] c = "M" -> "m" [] c = "N" -> "n" [] c = "O" -> "o" [] c = "P" -> "p"
         [] c = "Q" -> "q" [] c = "R" -> "r" [] c = "S" -> "s" [] c = "T" -> "t"
         [] c = "U" -> "u" [] c = "V" -> "v" [] c = "W" -> "w" [] c = "X" -> "x"
         [] c = "Y" -> "y" [] c = "Z" -> "z"]

RECURSIVE lower(_)
lower(s) ==
    IF Len(s) = 0 THEN s
    ELSE IF Len(s) = 1 THEN (IF s \in DOMAIN UpperToLower THEN UpperToLower[s] ELSE s)
    ELSE LET half == Len(s) \div 2
         IN  lower(SubSeq(s, 1, half)) \o lower(SubSeq(s, half + 1, Len(s)))

----------------------------------------------------------------------------
(* story_engine.py: StoryEngine._parse_response *)

DECISION_POINT == "DECISION_POINT"

NoDelimiterOptions ==
    <<"Continue cautiously", "Take a bold approach",
      "Seek more information", "Try a creative solution">>

PaddingOptions ==
    <<"Take a different approach", "Wait and observe",
      "Act decisively", "Seek help from others">>

\* re.match(r'^[1-4][\.\)]\s*(.+)', line) on a stripped line: does it match
OptionLineMatches(line) ==
    /\ Len(line) >= 3
    /\ CharAt(line, 1) \in {"1", "2", "3", "4"}
    /\ CharAt(line, 2) \in {".", ")"}
    /\ Len(lstrip(SubSeq(line, 3, Len(line)))) >= 1

\* match.group(1).strip()
OptionLineText(line) == strip(lstrip(SubSeq(line, 3, Len(line))))

\* the loop over options_text.split('\n')
RECURSIVE ExtractOptions(_)
ExtractOptions(lines) ==
    IF lines = <<>> THEN <<>>
    ELSE LET line == strip(Head(lines))
         IN  (IF OptionLineMatches(line) THEN <<OptionLineText(line)>> ELSE <<>>)
                 \o ExtractOptions(Tail(lines))

\* the padding slice without the upper clamp on over-long lists
EnsureFour_NoTruncate(options) ==
    IF Len(options) < 4
    THEN options \o SubSeq(PaddingOptions, 1, 4 - Len(options))
    ELSE options

\* the padding taken from the end of the fixed list instead of its start
EnsureFour_PadTail(options) ==
    IF Len(options) < 4
    THEN options \o SubSeq(PaddingOptions, Len(options) + 1, 4)
    ELSE IF Len(options) > 4
    THEN SubSeq(options, 1, 4)
    ELSE options

\* "Ensure we have exactly 4 options"
EnsureFour(options) ==
    IF Len(options) < 4
    THEN options \o SubSeq(PaddingOptions, 1, 4 - Len(options))
    ELSE IF Len(options) > 4
    THEN SubSeq(options, 1, 4)
    ELSE options

\* the parser returning the text as it came when the delimiter is missing
_parse_response_Untrimmed(response) ==
    LET parts == split(response, DECISION_POINT)
    IN  IF Len(parts) < 2
        THEN [story_text |-> response, options |-> NoDelimiterOptions]
        ELSE [story_text |-> strip(parts[1]),
              options    |-> EnsureFour(ExtractOptions(split(strip(parts[2]), "\n")))]

\* StoryEngine._parse_response(response)
_parse_response(response) ==
    LET parts == split(response, DECISION_POINT)
    IN  IF Len(parts) < 2
        THEN [story_text |-> strip(response), options |-> NoDelimiterOptions]
        ELSE [story_text |-> strip(parts[1]),
              options    |-> EnsureFour(ExtractOptions(split(strip(parts[2]), "\n")))]

----------------------------------------------------------------------------
(* config.py: Config.retry_with_backoff *)

RateLimitKeywords == {"rate limit", "429", "quota", "too many requests"}

\* the looser test app.py applies to error messages ("limit" alone)
IsRateLimitError_Limit(msg) ==
    \E keyword \in RateLimitKeywords \cup {"limit"} : Contains(lower(msg), keyword)

\* error_str = str(e).lower(); any(keyword in error_str for keyword in [...])
IsRateLimitError(msg) == \E keyword \in RateLimitKeywords : Contains(lower(msg), keyword)

RECURSIVE Pow2(_)
Pow2(n) == IF n <= 0 THEN 1 ELSE 2 * Pow2(n - 1)

\* linear instead of exponential backoff
BackoffDelay_Linear(base_delay, attempt) == base_delay * (attempt + 1)

\* delay = base_delay * (2 ** attempt)
BackoffDelay(base_delay, attempt) == base_delay * Pow2(attempt)

\* off by one: the last attempt is not recognised
IsLastAttempt_OffByOne(attempt, max_retries) == attempt = max_retries + 1

\* `if attempt == max_retries: raise e`
IsLastAttempt(attempt, max_retries) == attempt = max_retries

----------------------------------------------------------------------------
(* character.py: Character *)

Character(name, background, traits, goals, world) ==
    [name |-> name, background |-> background, traits |-> traits,
     goals |-> goals, world |-> world]

\* Character.validate() with every length taken of the raw string
validate_RawLength(c) ==
    /\ Len(c.name) >= 2 /\ Len(c.name) <= 100
    /\ Len(c.background) >= 10 /\ Len(c.background) <= 1000
    /\ Len(c.goals) >= 10 /\ Len(c.goals) <= 500
    /\ c.world # ""

\* Character.validate(): the list of issues is empty
validate(c) ==
    /\ ~(c.name = "" \/ Len(strip(c.name)) < 2)
    /\ ~(c.background = "" \/ Len(strip(c.background)) < 10)
    /\ ~(c.goals = "" \/ Len(strip(c.goals)) < 10)
    /\ ~(c.world = "")
    /\ ~(Len(c.name) > 100)
    /\ ~(Len(c.background) > 1000)
    /\ ~(Len(c.goals) > 500)

----------------------------------------------------------------------------
(* decision.py: StoryChunk, DecisionEntry, StoryHistory *)

StoryChunk(text, options) == [text |-> text, decision_options |-> options]

DecisionEntry(decision_text, available_options, chosen_index) ==
    [decision_text |-> decision_text,
     options_available |-> available_options,
     chosen_index |-> chosen_index]

StoryHistory(session_id, character_name, world_type) ==
    [session_id |-> session_id, character_name |-> character_name,
     world_type |-> world_type, story_chunks |-> <<>>, decisions |-> <<>>]

\* add_story_chunk creating the chunk without its options
add_story_chunk_NoOptions(h, text, options) ==
    [h EXCEPT !.story_chunks = Append(@, StoryChunk(text, <<>>))]

\* `options or []`: a None or empty argument becomes the empty list
add_story_chunk(h, text, options) ==
    [h EXCEPT !.story_chunks = Append(@, StoryChunk(text, options))]

\* add_decision putting the entry in the place of the decisions made so far
add_decision_Overwrite(h, decision_text, available_options, chosen_index) ==
    [h EXCEPT !.decisions =
        <<DecisionEntry(decision_text, available_options, chosen_index)>>]

\* no check of chosen_index against available_options is made here
add_decision(h, decision_text, available_options, chosen_index) ==
    [h EXCEPT !.decisions =
        Append(@, DecisionEntry(decision_text, available_options, chosen_index))]

\* StoryChunk.to_dict / DecisionEntry.to_dict / StoryHistory.to_dict, to_json
to_json(h) ==
    [session_id     |-> h.session_id,
     character_name |-> h.character_name,
     world_type     |-> h.world_type,
     story_chunks   |-> [i \in 1..Len(h.story_chunks) |->
                           [text |-> h.story_chunks[i].text,
                            decision_options |-> h.story_chunks[i].decision_options]],
     decisions      |-> [i \in 1..Len(h.decisions) |->
                           [decision_text |-> h.decisions[i].decision_text,
                            options_available |-> h.decisions[i].options_available,
                            chosen_index |-> h.decisions[i].chosen_index]]]

\* from_dict reading the decisions under a key to_dict never writes, so that
\* data.get(key, []) yields its default
from_json_NoDecisions(data) ==
    [session_id     |-> data.session_id,
     character_name |-> data.character_name,
     world_type     |-> data.world_type,
     story_chunks   |-> [i \in 1..Len(data.story_chunks) |->
                           StoryChunk(data.story_chunks[i].text,
                                      data.story_chunks[i].decision_options)],
     decisions      |-> <<>>]

\* StoryHistory.from_json / from_dict
from_json(data) ==
    [session_id     |-> data.session_id,
     character_name |-> data.character_name,
     world_type     |-> data.world_type,
     story_chunks   |-> [i \in 1..Len(data.story_chunks) |->
                           StoryChunk(data.story_chunks[i].text,
                                      data.story_chunks[i].decision_options)],
     decisions      |-> [i \in 1..Len(data.decisions) |->
                           DecisionEntry(data.decisions[i].decision_text,
                                         data.decisions[i].options_available,
                                         data.decisions[i].chosen_index)]]

----------------------------------------------------------------------------
(* Python list indexing: seq[i] with i zero-based, negative i from the end *)

Last(seq) == seq[Len(seq)]

IndexInRange(seq, i) == -Len(seq) <= i /\ i < Len(seq)

PyIndex(seq, i) == IF i >= 0 THEN seq[i + 1] ELSE seq[Len(seq) + i + 1]

----------------------------------------------------------------------------
(* config.py: Config.get_llm_client, and the engine built on it *)

APIs == <<"gemini", "huggingface", "openai">>

RECURSIVE SelectSeq2(_, _)
SelectSeq2(seq, keep) ==
    IF seq = <<>> THEN <<>>
    ELSE (IF Head(seq) \in keep THEN <<Head(seq)>> ELSE <<>>) \o SelectSeq2(Tail(seq), keep)

Range(seq) == {seq[i] : i \in 1..Len(seq)}

\* _validate_all_apis: the keys that are set are validated in the fixed order
\* gemini, huggingface, openai; `valid` is the set whose test request succeeds
_validate_all_apis(keys, valid) == SelectSeq2(APIs, keys \cap valid)

\* the fallback loop run from the end of the list
RECURSIVE FirstUsable_Last(_, _, _)
FirstUsable_Last(available, cache, init_ok) ==
    IF available = <<>> THEN NoneStr
    ELSE LET rest == FirstUsable_Last(Tail(available), cache, init_ok)
         IN  IF rest # NoneStr THEN rest
             ELSE IF Head(available) \in cache \/ Head(available) \in init_ok
             THEN Head(available)
             ELSE NoneStr

\* the fallback loop `for api in self.available_apis`: the first identifier
\* that is cached or whose client initialises (init_ok)
RECURSIVE FirstUsable(_, _, _)
FirstUsable(available, cache, init_ok) ==
    IF available = <<>> THEN NoneStr
    ELSE IF Head(available) \in cache \/ Head(available) \in init_ok THEN Head(available)
    ELSE FirstUsable(Tail(available), cache, init_ok)

\* get_llm_client without the cache lookup for the preferred backend
get_llm_client_Uncached(preferred_api, available, cache, init_ok) ==
    IF preferred_api \in Range(available) /\ preferred_api \in init_ok
    THEN [api_name |-> preferred_api, cache |-> cache \cup {preferred_api},
          created |-> preferred_api]
    ELSE LET api == FirstUsable(available, cache, init_ok)
         IN  IF api = NoneStr
             THEN [api_name |-> NoneStr, cache |-> cache, created |-> NoneStr]
             ELSE [api_name |-> api, cache |-> cache \cup {api},
                   created |-> IF api \in cache THEN NoneStr ELSE api]

\* get_llm_client(preferred_api): the identifier returned (NoneStr for
\* (None, None)), the backends cached afterwards, and the backend whose client
\* this call created (NoneStr when it created none)
get_llm_client(preferred_api, available, cache, init_ok) ==
    IF preferred_api \in cache /\ preferred_api \in Range(available)
    THEN [api_name |-> preferred_api, cache |-> cache, created |-> NoneStr]
    ELSE IF preferred_api \in Range(available) /\ preferred_api \in init_ok
    THEN [api_name |-> preferred_api, cache |-> cache \cup {preferred_api},
          created |-> preferred_api]
    ELSE LET api == FirstUsable(available, cache, init_ok)
         IN  IF api = NoneStr
             THEN [api_name |-> NoneStr, cache |-> cache, created |-> NoneStr]
             ELSE [api_name |-> api, cache |-> cache \cup {api},
                   created |-> IF api \in cache THEN NoneStr ELSE api]

\* _initialize_client asking get_client() without looking at DEMO_MODE
_initialize_client_KeysOnly(demo, available, cache, init_ok) ==
    get_llm_client("gemini", available, cache, init_ok)

\* StoryEngine._initialize_client: demo mode first, else get_client()
_initialize_client(demo, available, cache, init_ok) ==
    IF demo
    THEN [api_name |-> "demo", cache |-> cache, created |-> NoneStr]
    ELSE get_llm_client("gemini", available, cache, init_ok)

\* StoryEngine.is_available
is_available(engine) == engine.api_name # NoneStr

----------------------------------------------------------------------------
(* story_engine.py: generation *)

\* _get_default_template
DefaultTemplates ==
    [cultivation  |-> "A mystical world where people cultivate spiritual energy to gain power and transcend mortality.",
     martial_arts |-> "A world of martial artists, honor duels, and ancient fighting techniques.",
     fantasy      |-> "A magical realm with wizards, dragons, and epic quests.",
     sci_fi       |-> "A futuristic universe with advanced technology and space exploration.",
     modern_urban |-> "A modern city setting with hidden supernatural elements."]

_get_default_template(world_type) ==
    IF world_type \in DOMAIN DefaultTemplates
    THEN DefaultTemplates[world_type]
    ELSE DefaultTemplates["fantasy"]

\* the canned opening stories of _get_demo_response (narrative cut to its
\* first sentence, the decision block verbatim)
DemoStories ==
    [cultivation |->
        "\nYou find yourself standing at the entrance of the Azure Mountain Sect.\n\nDECISION_POINT\n1. Take the golden path of harmony and balance\n2. Choose the lightning path of power and intensity\n3. Enter the shadow path of mystery and stealth\n4. Ask Elder Chen for more guidance about the paths\n",
     fantasy |->
        "\nThe ancient tavern door creaks open as you step into the dimly lit common room.\n\nDECISION_POINT\n1. Offer to help them decipher the map\n2. Challenge the dwarf's skepticism about the treasure\n3. Ask to hear more about the Dragon's Hoard legend\n4. Order a drink and listen to their conversation quietly\n",
     martial_arts |->
        "\nThe morning sun filters through bamboo leaves as you practice your forms.\n\nDECISION_POINT\n1. Agree with Wei - pursue the thieves immediately\n2. Support Mei's cautious approach to investigate first\n3. Suggest splitting into two groups to do both\n4. Ask Master Liu if he has any idea who might be responsible\n"]

\* the canned continuations (random.choice picks one)
DemoContinuations ==
    {"\nYour choice leads you down a winding path filled with unexpected encounters.\n\nDECISION_POINT\n1. Take the path that leads toward distant mountains\n2. Follow the river route through the valley\n3. Venture into the dark forest ahead\n4. Rest here and contemplate your next move\n",
     "\nThe consequences of your previous decision begin to unfold in ways you never expected.\n\nDECISION_POINT\n1. Trust your instincts and act boldly\n2. Seek counsel from your companions\n3. Take time to carefully analyze the situation\n4. Try to find a creative alternative solution\n",
     "\nYour journey takes an unexpected turn as new revelations come to light.\n\nDECISION_POINT\n1. Embrace the change and adapt your approach\n2. Hold firm to your original principles\n3. Seek to understand the deeper truth\n4. Focus on the immediate practical concerns\n"}

\* the world keyword the demo backend reads off the prompt; `words` is the
\* lower-cased text of the prompt's variable parts (the fixed instructions
\* contain none of the keywords)
DemoWorld(words) ==
    IF Contains(words, "cultivation") THEN "cultivation"
    ELSE IF Contains(words, "martial") THEN "martial_arts"
    ELSE IF Contains(words, "sci") \/ Contains(words, "futuristic") THEN "sci_fi"
    ELSE IF Contains(words, "urban") \/ Contains(words, "modern") THEN "modern_urban"
    ELSE "fantasy"

\* demo_stories.get(world, demo_stories["fantasy"])
DemoStartResponse(words) ==
    IF DemoWorld(words) \in DOMAIN DemoStories
    THEN DemoStories[DemoWorld(words)]
    ELSE DemoStories["fantasy"]

\* the variable parts of the opening prompt: world template, character
\* profile, and the world, name, background and goals of the story prompt
StartPromptWords(character) ==
    lower(_get_default_template(character.world) \o " " \o character.name \o " "
          \o character.world \o " " \o character.background \o " " \o character.goals)

\* texts and errors of the cloud-model and inference-endpoint backends
RawResponses ==
    {"You enter a forest.\n\nDECISION_POINT\n1. Go left\n2. Go right\n3. Climb a tree\n4. Call for help"}

ProviderErrors == {"429 Quota exceeded"}

HuggingFaceFailure == "All Hugging Face models failed. Please try again or use a different API."

UnsupportedApi(api_name) == "Unsupported API: " \o api_name

Returned(value) == [ok |-> TRUE, value |-> value]
Raised(error) == [ok |-> FALSE, error |-> error]

\* what _generate_with_retry(prompt) can return or raise for the active
\* backend: retry_with_backoff hands on a value of generate_func or one of
\* its errors
GenerateOutcomes(api_name, demo_responses) ==
    IF api_name = "demo" THEN {Returned(r) : r \in demo_responses}
    ELSE IF api_name = "gemini"
    THEN {Returned(r) : r \in RawResponses} \cup {Raised(e) : e \in ProviderErrors}
    ELSE IF api_name = "huggingface"
    THEN {Returned(r) : r \in RawResponses} \cup {Raised(HuggingFaceFailure)}
    ELSE {Raised(UnsupportedApi(api_name))}

NoClientText == "Error: No AI client available. Please check your API configuration."

\* StoryEngine.start_story: the (story_text, decision_options) returned
start_story(engine, outcome) ==
    IF engine.api_name = NoneStr
    THEN [story_text |-> NoClientText, options |-> <<>>]
    ELSE IF outcome.ok
    THEN _parse_response(outcome.value)
    ELSE [story_text |-> "Error generating story: " \o outcome.error, options |-> <<>>]

\* StoryEngine.continue_story
continue_story(engine, outcome) ==
    IF engine.api_name = NoneStr
    THEN [story_text |-> NoClientText, options |-> <<>>]
    ELSE IF outcome.ok
    THEN _parse_response(outcome.value)
    ELSE [story_text |-> "Error continuing story: " \o outcome.error, options |-> <<>>]

----------------------------------------------------------------------------
(* The parser applied to bounded raw texts *)

MaxLines == 6

\* lines a generated text is assembled from: narrative, the delimiter on its
\* own line and inside a line, option lines in both accepted punctuations,
\* a numbered line outside 1-4 and a number with no text
ResponseLines ==
    {"You wake.", "DECISION_POINT", "1. Go left", " 2)Go right  ",
     "5. Sing", "so DECISION_POINT 3.Hide"}

RECURSIVE Join(_, _)
Join(lines, sep) ==
    IF lines = <<>> THEN ""
    ELSE IF Len(lines) = 1 THEN lines[1]
    ELSE lines[1] \o sep \o Join(Tail(lines), sep)

Responses ==
    {Join(ls, "\n") : ls \in UNION {[1..k -> ResponseLines] : k \in 0..MaxLines}}

RetryIdle ==
    /\ r_max_retries = 0
    /\ r_base_delay = 0
    /\ r_attempt = 0
    /\ r_pc = "idle"
    /\ r_calls = <<>>
    /\ r_sleeps = <<>>
    /\ r_result = NoneStr

ParseIdle ==
    /\ p_response = ""
    /\ p_result = None

\* a Config that is not under test: no key, nothing cached, no call made
ClientIdle ==
    /\ c_keys = {}
    /\ c_available = <<>>
    /\ c_cache = <<>>
    /\ c_next = 0
    /\ c_inits = [api \in Range(APIs) |-> 0]
    /\ c_returned = [api \in Range(APIs) |-> {}]
    /\ c_call = None

\* no Character under test
CharacterIdle ==
    /\ ch_character = None
    /\ ch_valid = None
    /\ ch_prompt = NoneStr

\* no StoryHistory under test
HistoryIdle ==
    /\ h_history = None
    /\ h_roundtrip = None
    /\ h_context = None

\* no template lookup made
TemplateIdle ==
    /\ t_store = <<>>
    /\ t_world = NoneStr
    /\ t_result = None

\* no StoryEngine under test
EngineIdle ==
    /\ e_demo = FALSE
    /\ e_available = <<>>
    /\ e_engine = None
    /\ e_call = None

\* no generation is running
GenerateIdle ==
    /\ g_api = NoneStr
    /\ g_attempt = 0
    /\ g_model = 0
    /\ g_posted = <<>>
    /\ g_answers = <<>>
    /\ g_sleeps = <<>>
    /\ g_result = None

\* a Config whose credentials are not under test
CredentialIdle ==
    /\ k_key = [api \in Range(APIs) |-> NoneStr]
    /\ k_available = <<>>
    /\ k_cache = <<>>
    /\ k_pending = None
    /\ k_call = None

\* no StoryHistory whose identifiers are under test
ChunkIdIdle ==
    /\ u_clock = 0
    /\ u_chunks = <<>>

\* no story table under test
TableIdle ==
    /\ s_rows = <<>>
    /\ s_user = NoneStr
    /\ s_history = None
    /\ s_story_id = NoneStr
    /\ s_starts = 0
    /\ s_call = None

\* no process environment shared by browser sessions under test
SharedIdle ==
    /\ x_keys = {}
    /\ x_demo = FALSE
    /\ x_configured = <<>>
    /\ x_backend = <<>>
    /\ x_last = None

\* no pagination under test
PageIdle ==
    /\ p_chapters = 0
    /\ p_per_page = 3
    /\ p_current_page = 1
    /\ p_last = None

\* no session table under test
AuthIdle ==
    /\ a_sessions = <<>>
    /\ a_clock = 0
    /\ a_result = None
    /\ a_logged_out = {}
    /\ a_ui = None

UnitIdle ==
    /\ ClientIdle
    /\ CharacterIdle
    /\ HistoryIdle
    /\ TemplateIdle
    /\ EngineIdle
    /\ GenerateIdle
    /\ CredentialIdle
    /\ ChunkIdIdle
    /\ TableIdle
    /\ SharedIdle
    /\ PageIdle
    /\ AuthIdle

retry_vars == <<r_max_retries, r_base_delay, r_attempt, r_pc, r_calls, r_sleeps, r_result>>
parse_vars == <<p_response, p_result>>
session_vars ==
    <<authenticated, user_data, story_history, current_character, current_options,
      story_started, waiting_for_choice, show_character_form, api_configured,
      last_story_error, current_story_id, last_op, last_generation>>
store_vars == <<user_stories>>
config_vars == <<demo_mode, api_keys>>
client_vars == <<c_keys, c_available, c_cache, c_next, c_inits, c_returned, c_call>>
character_vars == <<ch_character, ch_valid, ch_prompt>>
history_vars == <<h_history, h_roundtrip, h_context>>
template_vars == <<t_store, t_world, t_result>>
engine_vars == <<e_demo, e_available, e_engine, e_call>>
generate_vars == <<g_api, g_attempt, g_model, g_posted, g_answers, g_sleeps, g_result>>
credential_vars == <<k_key, k_available, k_cache, k_pending, k_call>>
chunk_id_vars == <<u_clock, u_chunks>>
table_vars == <<s_rows, s_user, s_history, s_story_id, s_starts, s_call>>
shared_vars == <<x_keys, x_demo, x_configured, x_backend, x_last>>
page_vars == <<p_chapters, p_per_page, p_current_page, p_last>>
auth_vars == <<a_sessions, a_clock, a_result, a_logged_out, a_ui>>
unit_vars == <<client_vars, character_vars, history_vars, template_vars, engine_vars, generate_vars, credential_vars, chunk_id_vars, table_vars, shared_vars, page_vars, auth_vars>>
vars == <<parse_vars, retry_vars, unit_vars, session_vars, store_vars, config_vars>>

\* initialize_session_state, an empty story table and a fresh Config with no
\* key in the environment
SessionInit ==
    /\ authenticated = FALSE
    /\ user_data = NoneStr
    /\ story_history = None
    /\ current_character = None
    /\ current_options = <<>>
    /\ story_started = FALSE
    /\ waiting_for_choice = FALSE
    /\ show_character_form = TRUE
    /\ api_configured = FALSE
    /\ last_story_error = NoneStr
    /\ current_story_id = NoneStr
    /\ user_stories = <<>>
    /\ demo_mode = FALSE
    /\ api_keys = {}
    /\ last_op = "other"
    /\ last_generation = None

InitParse ==
    /\ p_response \in Responses
    /\ p_result = None
    /\ RetryIdle
    /\ SessionInit
    /\ UnitIdle

Parse ==
    /\ p_result = None
    /\ p_result' = _parse_response(p_response)
    /\ UNCHANGED <<p_response, retry_vars, unit_vars, session_vars, store_vars, config_vars>>

NextParse == Parse

SpecParse == InitParse /\ [][NextParse]_vars

----------------------------------------------------------------------------
(* retry_with_backoff run against a func whose calls return or raise *)

MaxRetriesBound == 3
MaxBaseDelay == 2

\* what str(e) can be for the errors func raises
ErrorMessages ==
    {"429 Resource exhausted", "Quota exceeded for this key", "Rate Limit reached",
     "Too Many Requests", "API key not valid", "403 forbidden", "usage limit reached"}

FuncValues == {"Once upon a time."}

FuncOutcomes ==
    [ok : {TRUE}, value : FuncValues] \cup [ok : {FALSE}, error : ErrorMessages]

InitRetry ==
    /\ r_max_retries \in -1..MaxRetriesBound
    /\ r_base_delay \in 1..MaxBaseDelay
    /\ r_attempt = 0
    /\ r_pc = "loop"
    /\ r_calls = <<>>
    /\ r_sleeps = <<>>
    /\ r_result = NoneStr
    /\ ParseIdle
    /\ SessionInit
    /\ UnitIdle

\* one iteration of `for attempt in range(max_retries + 1)`: func() is called
\* and returns or raises `outcome`
RetryAttempt(outcome) ==
    /\ r_pc = "loop"
    /\ r_attempt < r_max_retries + 1
    /\ r_calls' = Append(r_calls, outcome)
    /\ IF outcome.ok
       THEN /\ r_pc' = "returned"
            /\ r_result' = outcome.value
            /\ UNCHANGED <<r_attempt, r_sleeps>>
       ELSE IF IsLastAttempt(r_attempt, r_max_retries)
       THEN /\ r_pc' = "raised"
            /\ r_result' = outcome.error
            /\ UNCHANGED <<r_attempt, r_sleeps>>
       ELSE IF IsRateLimitError(outcome.error)
       THEN /\ r_sleeps' = Append(r_sleeps, BackoffDelay(r_base_delay, r_attempt))
            /\ r_attempt' = r_attempt + 1
            /\ UNCHANGED <<r_pc, r_result>>
       ELSE /\ r_pc' = "raised"
            /\ r_result' = outcome.error
            /\ UNCHANGED <<r_attempt, r_sleeps>>
    /\ UNCHANGED <<r_max_retries, r_base_delay, parse_vars, unit_vars, session_vars, store_vars, config_vars>>

\* the range is exhausted: the function falls off its end and returns None
RetryExhausted ==
    /\ r_pc = "loop"
    /\ ~(r_attempt < r_max_retries + 1)
    /\ r_pc' = "returned"
    /\ r_result' = NoneStr
    /\ UNCHANGED <<r_max_retries, r_base_delay, r_attempt, r_calls, r_sleeps,
                   parse_vars, unit_vars, session_vars, store_vars, config_vars>>

NextRetry ==
    \/ \E outcome \in FuncOutcomes : RetryAttempt(outcome)
    \/ RetryExhausted

SpecRetry == InitRetry /\ [][NextRetry]_vars

\* the loop is straight-line code in one thread: it keeps running until it
\* returns or raises
SpecRetryFair == SpecRetry /\ WF_vars(NextRetry)

----------------------------------------------------------------------------
(* config.py: the Config object, its client cache and its invalidations *)

MaxClients == 3

\* what no operation of Config touches
client_others ==
    <<parse_vars, retry_vars, character_vars, history_vars, template_vars, engine_vars, generate_vars, credential_vars, chunk_id_vars, table_vars, shared_vars, page_vars, auth_vars, session_vars, store_vars, config_vars>>

\* the `preferred_api` argument: the three backends and an unknown identifier
PreferredApis == Range(APIs) \cup {"claude"}

\* the backends whose _initialize_client succeeds: the huggingface client is a
\* dict literal, the gemini and openai clients come from their libraries
ClientInitOk == {ok \cup {"huggingface"} : ok \in SUBSET Range(APIs)}

\* the epoch that an invalidation starts: nothing cached, nothing counted
NoInits == [api \in Range(APIs) |-> 0]
NoneReturned == [api \in Range(APIs) |-> {}]

\* Config.__init__: the keys of the environment are loaded and validated
InitClient ==
    /\ c_keys \in SUBSET Range(APIs)
    /\ \E valid \in SUBSET c_keys : c_available = _validate_all_apis(c_keys, valid)
    /\ c_cache = <<>>
    /\ c_next = 0
    /\ c_inits = NoInits
    /\ c_returned = NoneReturned
    /\ c_call = None
    /\ CharacterIdle
    /\ HistoryIdle
    /\ TemplateIdle
    /\ EngineIdle
    /\ GenerateIdle
    /\ CredentialIdle
    /\ ChunkIdIdle
    /\ TableIdle
    /\ SharedIdle
    /\ PageIdle
    /\ AuthIdle
    /\ ParseIdle
    /\ RetryIdle
    /\ SessionInit

\* get_llm_client(preferred_api); a client created by the call is a new
\* object (handle c_next + 1) stored in the cache under its identifier
GetClient(preferred_api, init_ok) ==
    /\ c_next < MaxClients
    /\ LET r == get_llm_client(preferred_api, c_available, DOMAIN c_cache, init_ok)
           cache == [api \in r.cache |->
                        IF api = r.created THEN c_next + 1 ELSE c_cache[api]]
           handle == IF r.api_name = NoneStr THEN 0 ELSE cache[r.api_name]
       IN  /\ c_cache' = cache
           /\ c_next' = IF r.created = NoneStr THEN c_next ELSE c_next + 1
           /\ c_inits' = IF r.created = NoneStr THEN c_inits
                         ELSE [c_inits EXCEPT ![r.created] = @ + 1]
           /\ c_returned' = IF r.api_name = NoneStr THEN c_returned
                            ELSE [c_returned EXCEPT ![r.api_name] = @ \cup {handle}]
           /\ c_call' = [preferred_api |-> preferred_api, init_ok |-> init_ok,
                         available |-> c_available, cached |-> DOMAIN c_cache,
                         api_name |-> r.api_name, handle |-> handle]
    /\ UNCHANGED <<c_keys, c_available>>
    /\ UNCHANGED client_others

\* clear_cache
ClearCache ==
    /\ c_cache' = <<>>
    /\ c_inits' = NoInits
    /\ c_returned' = NoneReturned
    /\ c_call' = None
    /\ UNCHANGED <<c_keys, c_available, c_next>>
    /\ UNCHANGED client_others

\* refresh_api_keys: reload the keys, clear the cache, revalidate
RefreshKeys(valid) ==
    /\ c_cache' = <<>>
    /\ c_available' = _validate_all_apis(c_keys, valid)
    /\ c_inits' = NoInits
    /\ c_returned' = NoneReturned
    /\ c_call' = None
    /\ UNCHANGED <<c_keys, c_next>>
    /\ UNCHANGED client_others

\* set_and_validate_api_key(api_name, api_key): the cache is cleared first;
\* a key that validates is stored and every stored key is revalidated
SetAndValidateKey(api_name, is_valid, valid) ==
    /\ c_cache' = <<>>
    /\ IF is_valid
       THEN /\ c_keys' = c_keys \cup {api_name}
            /\ c_available' = _validate_all_apis(c_keys \cup {api_name}, valid)
       ELSE UNCHANGED <<c_keys, c_available>>
    /\ c_inits' = NoInits
    /\ c_returned' = NoneReturned
    /\ c_call' = None
    /\ UNCHANGED c_next
    /\ UNCHANGED client_others

NextClient ==
    \/ \E preferred_api \in PreferredApis, init_ok \in ClientInitOk :
            GetClient(preferred_api, init_ok)
    \/ ClearCache
    \/ \E valid \in SUBSET Range(APIs) : RefreshKeys(valid)
    \/ \E api_name \in Range(APIs), is_valid \in BOOLEAN, valid \in SUBSET Range(APIs) :
            SetAndValidateKey(api_name, is_valid, valid)

SpecClient == InitClient /\ [][NextClient]_vars

----------------------------------------------------------------------------
(* character.py: Character.validate and Character.to_prompt on their own *)

Lowercase == {UpperToLower[c] : c \in DOMAIN UpperToLower}

\* a cased character: one that str.title() treats as part of a word
IsCased(c) == c \in DOMAIN UpperToLower \/ c \in Lowercase

\* str.upper() of one character
upper(c) ==
    IF c \in Lowercase THEN CHOOSE u \in DOMAIN UpperToLower : UpperToLower[u] = c ELSE c

\* str.capitalize(): the first character upper-cased, the rest lower-cased
title_Capitalize(s) ==
    IF Len(s) = 0 THEN s ELSE upper(CharAt(s, 1)) \o lower(SubSeq(s, 2, Len(s)))

\* str.title(): a cased character is upper-cased when it starts a run of
\* cased characters and lower-cased when it follows a cased character
RECURSIVE title_from(_, _)
title_from(s, previous_is_cased) ==
    IF Len(s) = 0 THEN s
    ELSE LET c == CharAt(s, 1)
         IN  (IF previous_is_cased THEN lower(c) ELSE upper(c))
                \o title_from(SubSeq(s, 2, Len(s)), IsCased(c))

title(s) == title_from(s, FALSE)

\* Character.to_prompt()
to_prompt(c) ==
    LET traits_str == IF c.traits # <<>> THEN Join(c.traits, ", ")
                      ELSE "No specific traits defined"
    IN  strip("\nPROTAGONIST PROFILE:\nName: " \o c.name
              \o "\nWorld: " \o title(c.world)
              \o "\nBackground: " \o c.background
              \o "\nPersonality Traits: " \o traits_str
              \o "\nGoals & Motivations: " \o c.goals
              \o "\n\nThis character is the protagonist of the story. All narrative should be written from their perspective or about their actions and decisions.\n")

\* s repeated n times
RECURSIVE Repeat(_, _)
Repeat(s, n) ==
    IF n = 0 THEN ""
    ELSE IF n = 1 THEN s
    ELSE Repeat(s, n \div 2) \o Repeat(s, n - n \div 2)

\* field values around every limit of validate(), some padded with whitespace
CharacterNames == {"", "Al", " a", "Li Wei", Repeat("n", 100), Repeat("n", 101)}
CharacterBackgrounds ==
    {"too short", "ten chars.", " too short", Repeat("b", 1000), Repeat("b", 1001)}
CharacterGoals ==
    {"none", "To avenge his deceased master.", "too short ", Repeat("g", 500),
     Repeat("g", 501)}
CharacterTraits == {<<>>, <<"Determined", "Humble">>}
CharacterWorlds == {"", "fantasy", "martial_arts", "sci_fi"}

\* a Character as its constructor leaves it: no method called yet
InitCharacter ==
    /\ \E name \in CharacterNames, background \in CharacterBackgrounds,
          traits \in CharacterTraits, goals \in CharacterGoals,
          world \in CharacterWorlds :
            ch_character = Character(name, background, traits, goals, world)
    /\ ch_valid = None
    /\ ch_prompt = NoneStr
    /\ ClientIdle
    /\ HistoryIdle
    /\ TemplateIdle
    /\ EngineIdle
    /\ GenerateIdle
    /\ CredentialIdle
    /\ ChunkIdIdle
    /\ TableIdle
    /\ SharedIdle
    /\ PageIdle
    /\ AuthIdle
    /\ ParseIdle
    /\ RetryIdle
    /\ SessionInit

\* what no method of Character touches
character_others ==
    <<parse_vars, retry_vars, client_vars, history_vars, template_vars, engine_vars, generate_vars, credential_vars, chunk_id_vars, table_vars, shared_vars, page_vars, auth_vars, session_vars, store_vars, config_vars>>

\* is_valid, issues = character.validate()
Validate ==
    /\ ch_character # None
    /\ ch_valid' = [is_valid |-> validate(ch_character)]
    /\ UNCHANGED <<ch_character, ch_prompt>>
    /\ UNCHANGED character_others

\* prompt = character.to_prompt()
ToPrompt ==
    /\ ch_character # None
    /\ ch_prompt' = to_prompt(ch_character)
    /\ UNCHANGED <<ch_character, ch_valid>>
    /\ UNCHANGED character_others

NextCharacter ==
    \/ Validate
    \/ ToPrompt

SpecCharacter == InitCharacter /\ [][NextCharacter]_vars

----------------------------------------------------------------------------
(* decision.py: a StoryHistory built by its two mutators, serialised and read *)

MaxHistoryChunks == 3
MaxHistoryDecisions == 2

\* seq[-n:] of a Python list, for any integer n
PySliceLast(seq, n) ==
    LET k == Len(seq)
        start == IF -n < 0 THEN Max(k - n, 0) ELSE Min(-n, k)
    IN  SubSeq(seq, start + 1, k)

\* StoryHistory.get_recent_context(num_chunks)
get_recent_context(h, num_chunks) ==
    IF h.story_chunks = <<>> THEN ""
    ELSE LET recent_chunks == PySliceLast(h.story_chunks, num_chunks)
             texts == [i \in 1..Len(recent_chunks) |-> recent_chunks[i].text]
             context_parts ==
                IF h.decisions # <<>> /\ Len(h.story_chunks) > Len(h.decisions)
                THEN Append(texts, "\n[Last Decision: "
                                     \o Last(h.decisions).decision_text \o "]")
                ELSE texts
         IN  Join(context_parts, "\n\n")

ChunkTexts == {"You wake.", "The gate opens."}
ChunkOptions == {<<>>, <<"Go left", "Go right", "Hide", "Wait">>}
DecisionTexts == {"Go left", "Hide"}
HistoryWorlds == {"fantasy", "sci_fi"}
NumChunks == 0..(MaxHistoryChunks + 1)

\* StoryHistory(session_id, character_name, world_type): no chunk, no decision
InitHistory ==
    /\ \E world \in HistoryWorlds :
            h_history = StoryHistory("Li Wei_20250101_120000", "Li Wei", world)
    /\ h_roundtrip = None
    /\ h_context = None
    /\ ClientIdle
    /\ CharacterIdle
    /\ TemplateIdle
    /\ EngineIdle
    /\ GenerateIdle
    /\ CredentialIdle
    /\ ChunkIdIdle
    /\ TableIdle
    /\ SharedIdle
    /\ PageIdle
    /\ AuthIdle
    /\ ParseIdle
    /\ RetryIdle
    /\ SessionInit

\* what no method of StoryHistory touches
history_others ==
    <<parse_vars, retry_vars, client_vars, character_vars, template_vars, engine_vars, generate_vars, credential_vars, chunk_id_vars, table_vars, shared_vars, page_vars, auth_vars, session_vars, store_vars,
      config_vars>>

AddStoryChunk(text, options) ==
    /\ h_history # None
    /\ Len(h_history.story_chunks) < MaxHistoryChunks
    /\ h_history' = add_story_chunk(h_history, text, options)
    /\ h_roundtrip' = None
    /\ h_context' = None
    /\ UNCHANGED history_others

AddDecision(decision_text, available_options, chosen_index) ==
    /\ h_history # None
    /\ Len(h_history.decisions) < MaxHistoryDecisions
    /\ h_history' = add_decision(h_history, decision_text, available_options, chosen_index)
    /\ h_roundtrip' = None
    /\ h_context' = None
    /\ UNCHANGED history_others

\* StoryHistory.from_json(history.to_json())
RoundTrip ==
    /\ h_history # None
    /\ h_roundtrip' = from_json(to_json(h_history))
    /\ UNCHANGED <<h_history, h_context>>
    /\ UNCHANGED history_others

\* history.get_recent_context(num_chunks)
GetRecentContext(num_chunks) ==
    /\ h_history # None
    /\ h_context' = [num_chunks |-> num_chunks,
                     text |-> get_recent_context(h_history, num_chunks)]
    /\ UNCHANGED <<h_history, h_roundtrip>>
    /\ UNCHANGED history_others

NextHistory ==
    \/ \E text \in ChunkTexts, options \in ChunkOptions : AddStoryChunk(text, options)
    \/ \E decision_text \in DecisionTexts :
            AddDecision(decision_text, <<"Go left", "Go right", "Hide", "Wait">>, 0)
    \/ RoundTrip
    \/ \E num_chunks \in NumChunks : GetRecentContext(num_chunks)

SpecHistory == InitHistory /\ [][NextHistory]_vars

----------------------------------------------------------------------------
(* story_engine.py: StoryEngine.load_world_template over a prompts directory *)

\* a file of the prompts directory: absent; present but open() or read()
\* raises; present with text
NoFile == [exists |-> FALSE, readable |-> FALSE, content |-> ""]
UnreadableFile == [exists |-> TRUE, readable |-> FALSE, content |-> ""]
TextFile(content) == [exists |-> TRUE, readable |-> TRUE, content |-> content]

\* self.prompts_dir / f"{world_type}.txt"
template_file(store, world_type) ==
    IF world_type \o ".txt" \in DOMAIN store THEN store[world_type \o ".txt"] ELSE NoFile

\* load_world_template with no handler around the read
load_world_template_Uncaught(store, world_type) ==
    LET file == template_file(store, world_type)
    IN  IF file.exists
        THEN (IF file.readable THEN Returned(strip(file.content))
              ELSE Raised("[Errno 13] Permission denied"))
        ELSE Returned(_get_default_template(world_type))

\* StoryEngine.load_world_template(world_type)
load_world_template(store, world_type) ==
    LET file == template_file(store, world_type)
    IN  IF file.exists /\ file.readable
        THEN Returned(strip(file.content))
        ELSE Returned(_get_default_template(world_type))

TemplateFileNames == {"fantasy.txt", "cultivation.txt", "steampunk.txt"}
TemplateFileStates ==
    {NoFile, UnreadableFile, TextFile(""),
     TextFile("\nA realm of brass and steam.\n")}
TemplateWorlds ==
    {"cultivation", "martial_arts", "fantasy", "sci_fi", "modern_urban", "steampunk",
     "western", ""}

\* a StoryEngine over some prompts directory, no template requested yet
InitTemplate ==
    /\ t_store \in [TemplateFileNames -> TemplateFileStates]
    /\ t_world = NoneStr
    /\ t_result = None
    /\ ClientIdle
    /\ CharacterIdle
    /\ HistoryIdle
    /\ EngineIdle
    /\ GenerateIdle
    /\ CredentialIdle
    /\ ChunkIdIdle
    /\ TableIdle
    /\ SharedIdle
    /\ PageIdle
    /\ AuthIdle
    /\ ParseIdle
    /\ RetryIdle
    /\ SessionInit

\* what load_world_template does not touch
template_others ==
    <<parse_vars, retry_vars, client_vars, character_vars, history_vars, engine_vars, generate_vars, credential_vars, chunk_id_vars, table_vars, shared_vars, page_vars, auth_vars, session_vars,
      store_vars, config_vars>>

LoadWorldTemplate(world_type) ==
    /\ DOMAIN t_store # {}
    /\ t_world' = world_type
    /\ t_result' = load_world_template(t_store, world_type)
    /\ UNCHANGED t_store
    /\ UNCHANGED template_others

NextTemplate == \E world_type \in TemplateWorlds : LoadWorldTemplate(world_type)

SpecTemplate == InitTemplate /\ [][NextTemplate]_vars

----------------------------------------------------------------------------
(* story_engine.py: a StoryEngine, its prompts and its demo backend *)

\* StoryEngine.create_system_prompt(character, world_template)
create_system_prompt(character, world_template) ==
    strip("\nYou are a masterful interactive fiction writer creating an engaging story for the user. Follow these guidelines:\n\n"
          \o world_template
          \o "\n\n"
          \o to_prompt(character)
          \o "\n\nSTORY WRITING RULES:\n1. Write in second person perspective (\"You do...\", \"You see...\") to immerse the protagonist\n2. Create vivid, descriptive scenes that bring the world to life\n3. Include dialogue from NPCs with distinct personalities\n4. Generate unexpected twists and consequences based on previous decisions\n5. Maintain consistency with the character's background and motivations\n6. Each story segment should be 200-400 words\n\nDECISION POINTS:\n- After each story segment, create a decision point with exactly 4 options\n- Options should be meaningfully different and lead to different outcomes\n- Include at least one risky/bold option and one cautious option\n- Make sure options align with the character's abilities and the world setting\n\nFORMAT YOUR RESPONSE EXACTLY LIKE THIS:\n[Story text goes here - 200-400 words describing the scene, action, and dialogue]\n\nDECISION_POINT\n1. [First option - brief but clear description]\n2. [Second option - brief but clear description]  \n3. [Third option - brief but clear description]\n4. [Fourth option - brief but clear description]\n\nRemember: The story should feel dynamic and reactive to the character's previous choices. Create memorable NPCs and situations that matter to the ongoing narrative.\n")

\* the f-string `story_prompt` of start_story
story_prompt(character) ==
    "\nBegin an exciting "
    \o character.world
    \o " adventure. Introduce the protagonist "
    \o character.name
    \o " in an engaging opening scene that sets up their story. Include:\n\n1. A vivid description of the initial setting\n2. A situation that connects to their background: "
    \o character.background
    \o "\n3. An immediate challenge or opportunity that relates to their goals: "
    \o character.goals
    \o "\n4. At least one interesting NPC to interact with\n\nMake the opening compelling and immersive, then present the first major decision point.\n"

\* a continuation prompt that leaves the chosen action out
continuation_prompt_NoAction(recent_context, chosen_option) ==
    "\nPREVIOUS STORY CONTEXT:\n" \o recent_context \o "\n"

\* the f-string `continuation_prompt` of continue_story
continuation_prompt(recent_context, chosen_option) ==
    "\nPREVIOUS STORY CONTEXT:\n"
    \o recent_context
    \o "\n\nPLAYER'S CHOSEN ACTION:\n"
    \o chosen_option
    \o "\n\nContinue the story based on the player's choice. Show the consequences of their decision, advance the plot, and create a new compelling situation with 4 new decision options. Make sure the story flows naturally from the previous events and the chosen action.\n"

\* StoryEngine._get_demo_response(prompt); `choice` is what random.choice
\* picks among the continuations
_get_demo_response(prompt, choice) ==
    IF Contains(prompt, "Begin an exciting")
    THEN DemoStartResponse(lower(prompt))
    ELSE choice

\* what _generate_with_retry(prompt) can hand back for the engine's backend
EngineOutcomes(api_name, prompt) ==
    IF api_name = "demo"
    THEN {Returned(_get_demo_response(prompt, choice)) : choice \in DemoContinuations}
    ELSE GenerateOutcomes(api_name, {})

\* the Character continue_story builds from the history
StandIn(history) == Character(history.character_name, "", <<>>, "", history.world_type)

EngineCharacters ==
    {Character("Li Wei", "A young orphan discovered to have rare spiritual roots.",
               <<"Determined", "Humble">>, "To avenge his deceased master.", "cultivation"),
     Character("Ada", "An engineer on a drifting station.", <<>>,
               "To repair the reactor.", "sci_fi"),
     Character("Mei", "A student of the crane school.", <<"Calm">>,
               "To win the autumn duel.", "martial_arts")}

EngineHistories ==
    LET one == add_story_chunk(StoryHistory("Ada_20250101_120000", "Ada", "sci_fi"),
                               "You wake.", <<"Go left", "Go right", "Hide", "Wait">>)
        two == add_story_chunk(add_decision(one, "Go left",
                                            <<"Go left", "Go right", "Hide", "Wait">>, 0),
                               "The gate opens.", <<"Enter", "Knock", "Leave", "Listen">>)
    IN  {one, two}

\* the prompts directory: empty, or holding a template for one world
EngineStores == {<<>>, [name \in {"sci_fi.txt"} |-> TextFile("A neon city under rain.\n")]}

\* the process environment and the Config the engine will be built in
InitEngine ==
    /\ e_demo \in BOOLEAN
    /\ \E keys \in SUBSET Range(APIs) : e_available = _validate_all_apis(keys, keys)
    /\ e_engine = None
    /\ e_call = None
    /\ ClientIdle
    /\ CharacterIdle
    /\ HistoryIdle
    /\ TemplateIdle
    /\ GenerateIdle
    /\ CredentialIdle
    /\ ChunkIdIdle
    /\ TableIdle
    /\ SharedIdle
    /\ PageIdle
    /\ AuthIdle
    /\ ParseIdle
    /\ RetryIdle
    /\ SessionInit

\* what the engine does not touch
engine_others ==
    <<parse_vars, retry_vars, client_vars, character_vars, history_vars, template_vars,
      generate_vars, credential_vars, chunk_id_vars, table_vars, shared_vars, page_vars, auth_vars, session_vars, store_vars, config_vars>>

\* engine = StoryEngine()
NewEngine(init_ok) ==
    /\ LET r == _initialize_client(e_demo, e_available, {}, init_ok)
       IN  e_engine' = [api_name |-> r.api_name, created |-> r.created]
    /\ e_call' = None
    /\ UNCHANGED <<e_demo, e_available>>
    /\ UNCHANGED engine_others

\* engine.start_story(character)
StartStory(character, store) ==
    /\ e_engine # None
    /\ IF ~is_available(e_engine)
       THEN e_call' = [op |-> "start_story", backend |-> NoneStr, prompt |-> NoneStr,
                       character |-> character, world_template |-> NoneStr,
                       recent_context |-> NoneStr, chosen_option |-> NoneStr,
                       result |-> start_story(e_engine, None)]
       ELSE LET world_template == load_world_template(store, character.world).value
                prompt == create_system_prompt(character, world_template)
                            \o "\n\n" \o story_prompt(character)
            IN  \E outcome \in EngineOutcomes(e_engine.api_name, prompt) :
                    e_call' = [op |-> "start_story", backend |-> e_engine.api_name,
                               prompt |-> prompt, character |-> character,
                               world_template |-> world_template,
                               recent_context |-> NoneStr, chosen_option |-> NoneStr,
                               result |-> start_story(e_engine, outcome)]
    /\ UNCHANGED <<e_demo, e_available, e_engine>>
    /\ UNCHANGED engine_others

\* engine.continue_story(history, chosen_option)
ContinueStory(history, chosen_option, store) ==
    /\ e_engine # None
    /\ IF ~is_available(e_engine)
       THEN e_call' = [op |-> "continue_story", backend |-> NoneStr, prompt |-> NoneStr,
                       character |-> StandIn(history), world_template |-> NoneStr,
                       recent_context |-> NoneStr, chosen_option |-> chosen_option,
                       result |-> continue_story(e_engine, None)]
       ELSE LET recent_context == get_recent_context(history, 3)
                character == StandIn(history)
                world_template == load_world_template(store, history.world_type).value
                prompt == create_system_prompt(character, world_template) \o "\n\n"
                            \o continuation_prompt(recent_context, chosen_option)
            IN  \E outcome \in EngineOutcomes(e_engine.api_name, prompt) :
                    e_call' = [op |-> "continue_story", backend |-> e_engine.api_name,
                               prompt |-> prompt, character |-> character,
                               world_template |-> world_template,
                               recent_context |-> recent_context,
                               chosen_option |-> chosen_option,
                               result |-> continue_story(e_engine, outcome)]
    /\ UNCHANGED <<e_demo, e_available, e_engine>>
    /\ UNCHANGED engine_others

NextEngine ==
    \/ \E init_ok \in ClientInitOk : NewEngine(init_ok)
    \/ \E character \in EngineCharacters, store \in EngineStores :
            StartStory(character, store)
    \/ \E history \in EngineHistories, chosen_option \in {"Go left", "Leave"},
          store \in EngineStores :
            ContinueStory(history, chosen_option, store)

SpecEngine == InitEngine /\ [][NextEngine]_vars

----------------------------------------------------------------------------
(* story_engine.py: generate_func of _generate_with_retry, run by
   config.retry_with_backoff with its default arguments *)

\* retry_with_backoff(func, max_retries=3, base_delay=1.0)
DefaultMaxRetries == 3
DefaultBaseDelay == 1

\* `len(generated.strip()) > 50`
MinGeneratedLen == 50

models_to_try ==
    <<"mistralai/Mistral-7B-Instruct-v0.1", "microsoft/DialoGPT-large", "gpt2-large">>

\* what no step of a generation touches
generate_others ==
    <<parse_vars, retry_vars, client_vars, character_vars, history_vars, template_vars,
      engine_vars, credential_vars, chunk_id_vars, table_vars, shared_vars, page_vars, auth_vars, session_vars, store_vars, config_vars>>

\* generated texts: 73 characters, 12 characters, and 12 characters followed
\* by 52 blanks
LongText == "The gate of the Azure Cloud Sect opens before the young disciple at dawn."
ShortText == "Hello there."
PaddedText == "Hello there.                                                    "

\* response.json(): a list, a dict, or a body that is not JSON (json() raises)
JsonList(items) == [list |-> items]
JsonDict(fields) == [dict |-> fields]
NotJson == [notjson |-> TRUE]

\* requests.post(...): it raises, or it returns a response with a status code
RequestError(message) == [error |-> message]
Response(status_code, json) == [status_code |-> status_code, json |-> json]

GeneratedTexts == {LongText, ShortText, PaddedText, ""}

EndpointAnswers ==
    {RequestError("HTTPSConnectionPool: Read timed out."),
     RequestError("429 Client Error: Too Many Requests for url"),
     Response(429, JsonDict([error |-> "Rate limit reached"])),
     Response(503, JsonDict([error |-> "Model is currently loading"])),
     Response(200, NotJson),
     Response(200, JsonList(<<>>)),
     Response(200, JsonDict([error |-> "Model is currently loading"]))}
    \cup {Response(200, JsonList(<<[generated_text |-> t]>>)) : t \in GeneratedTexts}
    \cup {Response(200, JsonDict([generated_text |-> t])) : t \in GeneratedTexts}

\* result[0].get("generated_text", "")
get_generated_text(item) ==
    IF "generated_text" \in DOMAIN item THEN item.generated_text ELSE ""

\* the body of `for model in models_to_try` for one answer of the endpoint:
\* the text returned, or no return (the loop goes on to the next model)
NoReturn == [ok |-> FALSE, error |-> "continue"]

try_model(answer) ==
    IF "error" \in DOMAIN answer THEN NoReturn
    ELSE IF answer.status_code # 200 THEN NoReturn
    ELSE LET result == answer.json
         IN  IF "notjson" \in DOMAIN result THEN NoReturn
             ELSE IF "list" \in DOMAIN result /\ Len(result.list) > 0
             THEN LET generated == get_generated_text(result.list[1])
                  IN  IF generated # "" /\ Len(strip(generated)) > MinGeneratedLen
                      THEN Returned(generated)
                      ELSE NoReturn
             ELSE IF "dict" \in DOMAIN result /\ "generated_text" \in DOMAIN result.dict
             THEN Returned(result.dict.generated_text)
             ELSE NoReturn

\* client.generate_content(prompt).text returns, or the library raises
GeminiOutcomes ==
    {Returned(r) : r \in RawResponses}
    \cup {Raised(e) : e \in ProviderErrors \cup {"500 An internal error has occurred"}}

GenerateBackends == {"gemini", "huggingface"}

\* _generate_with_retry(prompt) was called on an engine with a live backend
InitGenerate ==
    /\ g_api \in GenerateBackends
    /\ g_attempt = 0
    /\ g_model = 1
    /\ g_posted = <<>>
    /\ g_answers = <<>>
    /\ g_sleeps = <<>>
    /\ g_result = None
    /\ ClientIdle
    /\ CharacterIdle
    /\ HistoryIdle
    /\ TemplateIdle
    /\ EngineIdle
    /\ CredentialIdle
    /\ ChunkIdIdle
    /\ TableIdle
    /\ SharedIdle
    /\ PageIdle
    /\ AuthIdle
    /\ ParseIdle
    /\ RetryIdle
    /\ SessionInit

\* the `except Exception as e` of retry_with_backoff for an error raised by
\* generate_func after `posted` and `answers` in this attempt
Caught(error, posted, answers) ==
    IF IsLastAttempt(g_attempt, DefaultMaxRetries) \/ ~IsRateLimitError(error)
    THEN /\ g_result' = Raised(error)
         /\ g_posted' = posted
         /\ g_answers' = answers
         /\ g_model' = 0
         /\ UNCHANGED <<g_attempt, g_sleeps>>
    ELSE /\ g_sleeps' = Append(g_sleeps, BackoffDelay(DefaultBaseDelay, g_attempt))
         /\ g_attempt' = g_attempt + 1
         /\ g_posted' = <<>>
         /\ g_answers' = <<>>
         /\ g_model' = 1
         /\ UNCHANGED g_result

\* one iteration of `for model in models_to_try`; after the last model the
\* loop ends and generate_func raises
TryModel(answer) ==
    /\ g_api = "huggingface"
    /\ g_result = None
    /\ g_model \in 1..Len(models_to_try)
    /\ LET posted  == Append(g_posted, models_to_try[g_model])
           answers == Append(g_answers, answer)
           outcome == try_model(answer)
       IN  IF outcome.ok
           THEN /\ g_result' = outcome
                /\ g_posted' = posted
                /\ g_answers' = answers
                /\ g_model' = 0
                /\ UNCHANGED <<g_attempt, g_sleeps>>
           ELSE IF g_model < Len(models_to_try)
           THEN /\ g_model' = g_model + 1
                /\ g_posted' = posted
                /\ g_answers' = answers
                /\ UNCHANGED <<g_attempt, g_sleeps, g_result>>
           ELSE Caught(HuggingFaceFailure, posted, answers)
    /\ UNCHANGED g_api
    /\ UNCHANGED generate_others

\* generate_func on the gemini backend: one call of generate_content
GenerateContent(outcome) ==
    /\ g_api = "gemini"
    /\ g_result = None
    /\ LET posted  == Append(g_posted, "gemini-1.5-flash")
           answers == Append(g_answers, outcome)
       IN  IF outcome.ok
           THEN /\ g_result' = outcome
                /\ g_posted' = posted
                /\ g_answers' = answers
                /\ g_model' = 0
                /\ UNCHANGED <<g_attempt, g_sleeps>>
           ELSE Caught(outcome.error, posted, answers)
    /\ UNCHANGED g_api
    /\ UNCHANGED generate_others

NextGenerate ==
    \/ \E answer \in EndpointAnswers : TryModel(answer)
    \/ \E outcome \in GeminiOutcomes : GenerateContent(outcome)

SpecGenerate == InitGenerate /\ [][NextGenerate]_vars

----------------------------------------------------------------------------
(* config.py: the credentials of the shared Config. Every Streamlit session
   runs its script in a thread of its own against the one module-level
   `config`; set_and_validate_api_key clears the cache, then waits for the
   test request of validate_api_key, then assigns the key *)

\* what no operation on the credentials touches
credential_others ==
    <<parse_vars, retry_vars, client_vars, character_vars, history_vars, template_vars,
      engine_vars, generate_vars, chunk_id_vars, table_vars, shared_vars, page_vars, auth_vars, session_vars, store_vars, config_vars>>

\* the backends a key is entered for, and the keys entered
KeyedApis == {"gemini", "huggingface"}
Credentials == {"key-1", "key-2"}

\* the backends that have a key
KeysSet(key) == {api \in Range(APIs) : key[api] # NoneStr}

\* Config.__init__: the keys of the environment are loaded and validated
InitCredential ==
    /\ k_key \in [Range(APIs) -> {NoneStr, "key-1"}]
    /\ KeysSet(k_key) \subseteq KeyedApis
    /\ \E valid \in SUBSET KeysSet(k_key) :
            k_available = _validate_all_apis(KeysSet(k_key), valid)
    /\ k_cache = <<>>
    /\ k_pending = None
    /\ k_call = None
    /\ ClientIdle
    /\ CharacterIdle
    /\ HistoryIdle
    /\ TemplateIdle
    /\ EngineIdle
    /\ GenerateIdle
    /\ ChunkIdIdle
    /\ TableIdle
    /\ SharedIdle
    /\ PageIdle
    /\ AuthIdle
    /\ ParseIdle
    /\ RetryIdle
    /\ SessionInit

\* set_and_validate_api_key up to the test request: `_clients_cache.clear()`,
\* then validate_api_key(api_name, api_key) is waiting for its answer
SetKeyClear(api_name, api_key) ==
    /\ k_pending = None
    /\ k_cache' = <<>>
    /\ k_pending' = [api_name |-> api_name, api_key |-> api_key]
    /\ k_call' = None
    /\ UNCHANGED <<k_key, k_available>>
    /\ UNCHANGED credential_others

\* set_and_validate_api_key from the answer of the test request on: a valid
\* key is assigned and every stored key is revalidated
SetKeyAssign(is_valid, valid) ==
    /\ k_pending # None
    /\ IF is_valid
       THEN LET key == [k_key EXCEPT ![k_pending.api_name] = k_pending.api_key]
            IN  /\ k_key' = key
                /\ k_available' = _validate_all_apis(KeysSet(key), valid)
       ELSE UNCHANGED <<k_key, k_available>>
    /\ k_pending' = None
    /\ k_call' = None
    /\ UNCHANGED k_cache
    /\ UNCHANGED credential_others

\* refresh_api_keys at the top of a page run of any session: the keys of the
\* environment are the assigned ones, the cache is cleared, the keys are
\* revalidated
RefreshCredentials(valid) ==
    /\ k_cache' = <<>>
    /\ k_available' = _validate_all_apis(KeysSet(k_key), valid)
    /\ k_call' = None
    /\ UNCHANGED <<k_key, k_pending>>
    /\ UNCHANGED credential_others

\* get_llm_client(preferred_api) of any session; _initialize_client builds a
\* client from the credential assigned at that moment
GetCredentialClient(preferred_api, init_ok) ==
    /\ LET r == get_llm_client(preferred_api, k_available, DOMAIN k_cache, init_ok)
           cache == [api \in r.cache |->
                        IF api = r.created THEN k_key[api] ELSE k_cache[api]]
       IN  /\ k_cache' = cache
           /\ k_call' = IF r.api_name = NoneStr
                        THEN [api_name |-> NoneStr]
                        ELSE [api_name |-> r.api_name,
                              built_from |-> cache[r.api_name],
                              configured |-> k_key[r.api_name],
                              created |-> r.created # NoneStr]
    /\ UNCHANGED <<k_key, k_available, k_pending>>
    /\ UNCHANGED credential_others

NextCredential ==
    \/ \E api_name \in KeyedApis, api_key \in Credentials : SetKeyClear(api_name, api_key)
    \/ \E is_valid \in BOOLEAN, valid \in SUBSET KeyedApis : SetKeyAssign(is_valid, valid)
    \/ \E valid \in SUBSET KeyedApis : RefreshCredentials(valid)
    \/ \E preferred_api \in KeyedApis, init_ok \in ClientInitOk :
            GetCredentialClient(preferred_api, init_ok)

SpecCredential == InitCredential /\ [][NextCredential]_vars

----------------------------------------------------------------------------
(* decision.py: the default chunk_id of a StoryChunk, taken from the clock *)

MaxTicks == 5
MaxIdChunks == 3

\* the clock is read with a resolution finer than a second
TicksPerSecond == 2

\* the time of day at tick 0
StartOfClock == [hour |-> 12, minute |-> 0, second |-> 58]

\* what no step on the identifiers touches
chunk_id_others ==
    <<parse_vars, retry_vars, client_vars, character_vars, history_vars, template_vars,
      engine_vars, generate_vars, credential_vars, table_vars, shared_vars, page_vars, auth_vars, session_vars, store_vars, config_vars>>

\* datetime.now() at a tick: the seconds of the day and the fraction
now(clock) ==
    [seconds |-> StartOfClock.hour * 3600 + StartOfClock.minute * 60
                    + StartOfClock.second + (clock \div TicksPerSecond),
     fraction |-> clock % TicksPerSecond]

\* `%H`, `%M`, `%S`: two digits
TwoDigits(n) == ToString(n \div 10) \o ToString(n % 10)

\* strftime('%Y%m%d_%H%M%S'): the fraction of the second is dropped
strftime(t) ==
    "20250101_" \o TwoDigits(t.seconds \div 3600)
                \o TwoDigits((t.seconds \div 60) % 60)
                \o TwoDigits(t.seconds % 60)

\* StoryChunk(text=text, decision_options=options) with its default fields
StoryChunkAt(text, options, clock) ==
    [text |-> text,
     timestamp |-> now(clock),
     chunk_id |-> "chunk_" \o strftime(now(clock)),
     decision_options |-> options]

InitChunkId ==
    /\ u_clock = 0
    /\ u_chunks = <<>>
    /\ ClientIdle
    /\ CharacterIdle
    /\ HistoryIdle
    /\ TemplateIdle
    /\ EngineIdle
    /\ GenerateIdle
    /\ CredentialIdle
    /\ TableIdle
    /\ SharedIdle
    /\ PageIdle
    /\ AuthIdle
    /\ ParseIdle
    /\ RetryIdle
    /\ SessionInit

\* time passes
Tick ==
    /\ u_clock < MaxTicks
    /\ u_clock' = u_clock + 1
    /\ UNCHANGED u_chunks
    /\ UNCHANGED chunk_id_others

\* history.add_story_chunk(text, options)
AddChunkAtClock(text, options) ==
    /\ Len(u_chunks) < MaxIdChunks
    /\ u_chunks' = Append(u_chunks, StoryChunkAt(text, options, u_clock))
    /\ UNCHANGED u_clock
    /\ UNCHANGED chunk_id_others

NextChunkId ==
    \/ Tick
    \/ \E text \in ChunkTexts, options \in ChunkOptions : AddChunkAtClock(text, options)

SpecChunkId == InitChunkId /\ [][NextChunkId]_vars

----------------------------------------------------------------------------
(* app.py: the session lifecycle, one action per button handler of a page run *)

MaxChunks == 2
MaxDecisions == 2
MaxStories == 1
MaxKeys == 1

RegisteredUsers == {"u1"}

\* the providers of the selectbox for which the user enters a key; the
\* other two differ in the error generation ends with (GenerateOutcomes)
ProviderChoices == {"gemini"}

\* what the character form can submit: a sample character and one that
\* Character.validate() rejects
FormInputs ==
    {Character("Li Wei",
               "A young orphan discovered to have rare spiritual roots.",
               <<"Determined", "Humble">>,
               "To avenge his deceased master.",
               "cultivation"),
     Character("A", "too short", <<>>, "none", "sci_fi")}

\* the `choice_index` argument of make_decision: the radio yields
\* 0..len(options)-1; the function itself accepts any int
ChoiceIndexes == {-5, -1, 0, 4}

\* datetime.now().strftime('%Y%m%d_%H%M%S')
Now == "20250101_120000"

\* str(uuid.uuid4()) of the n-th inserted row
StoryId(n) == "story-" \o ToString(n)

\* client initialisation: the inference-endpoint client is a plain dict, the
\* other two can raise
InitOkSets == {Range(APIs), {"huggingface"}}

\* config.refresh_api_keys() at the top of setup_api_configuration: every page
\* run of a signed-in user reloads the keys, empties the client cache and
\* revalidates (`valid`: the keys whose test request succeeds now), so
\* config.available_apis and config._clients_cache are values of the run
refresh_api_keys(valid) == _validate_all_apis(api_keys, valid)

\* setup_api_configuration's return value
api_ready(available) == available # <<>> \/ api_configured

\* main() got past the authentication check and the "configure your API" page
PageShown(available) == authenticated /\ (api_ready(available) \/ current_character # None)

\* `not st.session_state.story_history`: None, or a history whose __len__ is 0
NoHistory(history) == history = None \/ Len(history.story_chunks) = 0

\* display_paginated_story is called and reaches the decision interface
DecisionInterfaceShown ==
    /\ story_started \/ (current_character = None /\ ~show_character_form)
    /\ ~NoHistory(story_history)
    /\ waiting_for_choice
    /\ current_options # <<>>

\* auth.save_user_story: INSERT a new row under a fresh story_id
save_user_story(rows, user_id, story_data) ==
    Append(rows, [story_id |-> StoryId(Len(rows) + 1), user_id |-> user_id,
                  story_data |-> story_data, is_active |-> TRUE])

\* update_user_story bound to the story id alone
update_user_story_AnyOwner(rows, user_id, story_id, story_data) ==
    [i \in 1..Len(rows) |->
        IF rows[i].story_id = story_id /\ rows[i].is_active
        THEN [rows[i] EXCEPT !.story_data = story_data]
        ELSE rows[i]]

\* auth.update_user_story: UPDATE ... WHERE user_id = ? AND story_id = ? AND is_active
update_user_story(rows, user_id, story_id, story_data) ==
    [i \in 1..Len(rows) |->
        IF rows[i].user_id = user_id /\ rows[i].story_id = story_id /\ rows[i].is_active
        THEN [rows[i] EXCEPT !.story_data = story_data]
        ELSE rows[i]]

\* save_current_story: the story table afterwards
save_current_story(rows, history, user_id, story_id) ==
    IF NoHistory(history) \/ user_id = "guest" THEN rows
    ELSE IF story_id # NoneStr THEN update_user_story(rows, user_id, story_id, to_json(history))
    ELSE save_user_story(rows, user_id, to_json(history))

\* an auto-save that stores whoever is signed in
auto_save_NoGuard(rows, history, user_id, story_id) ==
    IF NoHistory(history) \/ user_id = NoneStr THEN rows
    ELSE IF story_id # NoneStr THEN update_user_story(rows, user_id, story_id, to_json(history))
    ELSE save_user_story(rows, user_id, to_json(history))

\* the auto-save of start_new_story and make_decision
auto_save(rows, history, user_id, story_id) ==
    IF user_id # NoneStr /\ user_id # "guest"
    THEN save_current_story(rows, history, user_id, story_id)
    ELSE rows

\* save_current_story inserts a row
Inserts(history, user_id, story_id) ==
    ~NoHistory(history) /\ user_id # NoneStr /\ user_id # "guest" /\ story_id = NoneStr

\* display_login_form, successful login
Login(u) ==
    /\ ~authenticated
    /\ authenticated' = TRUE
    /\ user_data' = u
    /\ last_op' = "other"
    /\ last_generation' = None
    /\ UNCHANGED <<story_history, current_character, current_options, story_started,
                   waiting_for_choice, show_character_form, api_configured,
                   last_story_error, current_story_id>>
    /\ UNCHANGED <<parse_vars, retry_vars, unit_vars, store_vars, config_vars>>

\* display_auth_forms, "Continue as Guest"
ContinueAsGuest ==
    /\ ~authenticated
    /\ authenticated' = TRUE
    /\ user_data' = "guest"
    /\ last_op' = "other"
    /\ last_generation' = None
    /\ UNCHANGED <<story_history, current_character, current_options, story_started,
                   waiting_for_choice, show_character_form, api_configured,
                   last_story_error, current_story_id>>
    /\ UNCHANGED <<parse_vars, retry_vars, unit_vars, store_vars, config_vars>>

\* a logout that leaves story_started as it is
Logout_KeepStarted ==
    /\ authenticated /\ user_data # NoneStr
    /\ authenticated' = FALSE
    /\ user_data' = NoneStr
    /\ story_history' = None
    /\ current_character' = None
    /\ last_op' = "other"
    /\ last_generation' = None
    /\ UNCHANGED <<current_options, story_started, waiting_for_choice, show_character_form,
                   api_configured, last_story_error, current_story_id>>
    /\ UNCHANGED <<parse_vars, retry_vars, unit_vars, store_vars, config_vars>>

\* display_user_profile, "Logout"
Logout ==
    /\ authenticated /\ user_data # NoneStr
    /\ authenticated' = FALSE
    /\ user_data' = NoneStr
    /\ story_history' = None
    /\ current_character' = None
    /\ story_started' = FALSE
    /\ last_op' = "other"
    /\ last_generation' = None
    /\ UNCHANGED <<current_options, waiting_for_choice, show_character_form,
                   api_configured, last_story_error, current_story_id>>
    /\ UNCHANGED <<parse_vars, retry_vars, unit_vars, store_vars, config_vars>>

\* load_user_story for a row of the signed-in user
LoadUserStory(i) ==
    /\ authenticated /\ user_data # NoneStr /\ user_data # "guest"
    /\ i \in 1..Len(user_stories)
    /\ user_stories[i].user_id = user_data /\ user_stories[i].is_active
    /\ LET history == from_json(user_stories[i].story_data)
       IN  /\ story_history' = history
           /\ current_story_id' = user_stories[i].story_id
           /\ story_started' = TRUE
           /\ show_character_form' = FALSE
           /\ IF history.story_chunks # <<>>
              THEN /\ current_options' = Last(history.story_chunks).decision_options
                   /\ waiting_for_choice' = (Last(history.story_chunks).decision_options # <<>>)
              ELSE UNCHANGED <<current_options, waiting_for_choice>>
           /\ current_character' =
                 Character(history.character_name, "Loaded character from saved story",
                           <<>>, "", history.world_type)
    /\ last_op' = "other"
    /\ last_generation' = None
    /\ UNCHANGED <<authenticated, user_data, api_configured, last_story_error>>
    /\ UNCHANGED <<parse_vars, retry_vars, unit_vars, store_vars, config_vars>>

\* a page run in which no button is pressed: setup_api_configuration records
\* a connected provider in api_configured
PageRun(valid) ==
    /\ authenticated
    /\ api_configured' = api_ready(refresh_api_keys(valid))
    /\ last_op' = "other"
    /\ last_generation' = None
    /\ UNCHANGED <<authenticated, user_data, story_history, current_character,
                   current_options, story_started, waiting_for_choice,
                   show_character_form, last_story_error, current_story_id>>
    /\ UNCHANGED <<parse_vars, retry_vars, unit_vars, store_vars, config_vars>>

\* setup_api_configuration, "Reset API Configuration"
ResetApiConfiguration(valid) ==
    /\ authenticated
    /\ refresh_api_keys(valid) # <<>>
    /\ api_keys' = {}
    /\ demo_mode' = FALSE
    /\ api_configured' = FALSE
    /\ last_op' = "other"
    /\ last_generation' = None
    /\ UNCHANGED <<authenticated, user_data, story_history, current_character,
                   current_options, story_started, waiting_for_choice,
                   show_character_form, last_story_error, current_story_id>>
    /\ UNCHANGED <<parse_vars, retry_vars, unit_vars, store_vars>>

\* setup_api_configuration, "Change API Provider"
ChangeApiProvider(valid) ==
    /\ authenticated
    /\ refresh_api_keys(valid) = <<>> /\ api_configured
    /\ api_configured' = FALSE
    /\ demo_mode' = FALSE
    /\ last_op' = "other"
    /\ last_generation' = None
    /\ UNCHANGED <<authenticated, user_data, story_history, current_character,
                   current_options, story_started, waiting_for_choice,
                   show_character_form, last_story_error, current_story_id>>
    /\ UNCHANGED <<parse_vars, retry_vars, unit_vars, store_vars, api_keys>>

\* setup_api_configuration, "Validate & Connect": set_and_validate_api_key
\* stores the key only if its test request succeeds (is_valid)
ValidateAndConnect(valid, api, is_valid) ==
    /\ authenticated
    /\ refresh_api_keys(valid) = <<>> /\ ~api_configured
    /\ Cardinality(api_keys \cup {api}) <= MaxKeys
    /\ IF is_valid
       THEN /\ api_keys' = api_keys \cup {api}
            /\ api_configured' = TRUE
       ELSE UNCHANGED <<api_keys, api_configured>>
    /\ last_op' = "other"
    /\ last_generation' = None
    /\ UNCHANGED <<authenticated, user_data, story_history, current_character,
                   current_options, story_started, waiting_for_choice,
                   show_character_form, last_story_error, current_story_id>>
    /\ UNCHANGED <<parse_vars, retry_vars, unit_vars, store_vars, demo_mode>>

\* setup_api_configuration, "Activate Demo Mode"
ActivateDemoMode(valid) ==
    /\ authenticated
    /\ refresh_api_keys(valid) = <<>> /\ ~api_configured
    /\ demo_mode' = TRUE
    /\ api_configured' = TRUE
    /\ last_op' = "other"
    /\ last_generation' = None
    /\ UNCHANGED <<authenticated, user_data, story_history, current_character,
                   current_options, story_started, waiting_for_choice,
                   show_character_form, last_story_error, current_story_id>>
    /\ UNCHANGED <<parse_vars, retry_vars, unit_vars, store_vars, api_keys>>

\* create_character_form, "Create Character"
CreateCharacter(valid, character) ==
    /\ PageShown(refresh_api_keys(valid))
    /\ show_character_form
    /\ IF validate(character)
       THEN /\ current_character' = character
            /\ show_character_form' = FALSE
       ELSE UNCHANGED <<current_character, show_character_form>>
    /\ api_configured' = api_ready(refresh_api_keys(valid))
    /\ last_op' = "other"
    /\ last_generation' = None
    /\ UNCHANGED <<authenticated, user_data, story_history, current_options,
                   story_started, waiting_for_choice, last_story_error, current_story_id>>
    /\ UNCHANGED <<parse_vars, retry_vars, unit_vars, store_vars, config_vars>>

\* main(), "Edit Character"
EditCharacter(valid) ==
    /\ PageShown(refresh_api_keys(valid))
    /\ ~story_started
    /\ current_character # None /\ ~show_character_form
    /\ show_character_form' = TRUE
    /\ api_configured' = api_ready(refresh_api_keys(valid))
    /\ last_op' = "other"
    /\ last_generation' = None
    /\ UNCHANGED <<authenticated, user_data, story_history, current_character,
                   current_options, story_started, waiting_for_choice,
                   last_story_error, current_story_id>>
    /\ UNCHANGED <<parse_vars, retry_vars, unit_vars, store_vars, config_vars>>

\* create_new_character
create_new_character(valid) ==
    /\ PageShown(refresh_api_keys(valid))
    /\ current_character # None /\ ~show_character_form
    /\ current_character' = None
    /\ show_character_form' = TRUE
    /\ story_history' = None
    /\ story_started' = FALSE
    /\ waiting_for_choice' = FALSE
    /\ last_story_error' = NoneStr
    /\ current_story_id' = NoneStr
    /\ api_configured' = api_ready(refresh_api_keys(valid))
    /\ last_op' = "other"
    /\ last_generation' = None
    /\ UNCHANGED <<authenticated, user_data, current_options>>
    /\ UNCHANGED <<parse_vars, retry_vars, unit_vars, store_vars, config_vars>>

\* restart_story keeping the offered options
restart_story_KeepOptions(valid) ==
    /\ PageShown(refresh_api_keys(valid))
    /\ story_started \/ DecisionInterfaceShown
    /\ story_history' = None
    /\ story_started' = FALSE
    /\ waiting_for_choice' = FALSE
    /\ last_story_error' = NoneStr
    /\ current_story_id' = NoneStr
    /\ show_character_form' = FALSE
    /\ api_configured' = api_ready(refresh_api_keys(valid))
    /\ last_op' = "restart_story"
    /\ last_generation' = None
    /\ UNCHANGED <<authenticated, user_data, current_character, current_options>>
    /\ UNCHANGED <<parse_vars, retry_vars, unit_vars, store_vars, config_vars>>

\* restart_story, from "Restart Adventure" in the sidebar or "Restart Story"
\* beside the decision button
restart_story(valid) ==
    /\ PageShown(refresh_api_keys(valid))
    /\ story_started \/ DecisionInterfaceShown
    /\ story_history' = None
    /\ current_options' = <<>>
    /\ story_started' = FALSE
    /\ waiting_for_choice' = FALSE
    /\ last_story_error' = NoneStr
    /\ current_story_id' = NoneStr
    /\ show_character_form' = FALSE
    /\ api_configured' = api_ready(refresh_api_keys(valid))
    /\ last_op' = "restart_story"
    /\ last_generation' = None
    /\ UNCHANGED <<authenticated, user_data, current_character>>
    /\ UNCHANGED <<parse_vars, retry_vars, unit_vars, store_vars, config_vars>>

\* main(), "Save Story"
SaveStory(valid) ==
    /\ PageShown(refresh_api_keys(valid))
    /\ story_started
    /\ user_data # NoneStr /\ user_data # "guest"
    /\ Inserts(story_history, user_data, current_story_id) => Len(user_stories) < MaxStories
    /\ user_stories' = save_current_story(user_stories, story_history, user_data, current_story_id)
    /\ api_configured' = api_ready(refresh_api_keys(valid))
    /\ last_op' = "other"
    /\ last_generation' = None
    /\ UNCHANGED <<authenticated, user_data, story_history, current_character,
                   current_options, story_started, waiting_for_choice,
                   show_character_form, last_story_error, current_story_id>>
    /\ UNCHANGED <<parse_vars, retry_vars, unit_vars, config_vars>>

\* main(), "Start Adventure!": start_new_story(character) when api_ready;
\* `revalid` is the validation of the handler's own refresh_api_keys()
start_new_story(valid, revalid, init_ok) ==
    /\ PageShown(refresh_api_keys(valid))
    /\ ~story_started
    /\ current_character # None /\ ~show_character_form
    /\ api_ready(refresh_api_keys(valid))
    /\ LET character == current_character
           available == refresh_api_keys(revalid)
           first     == _initialize_client(demo_mode, available, {}, init_ok)
           engine    == _initialize_client(demo_mode, available, first.cache, init_ok)
           history   == StoryHistory(character.name \o "_" \o Now, character.name, character.world)
       IN  /\ current_story_id' = NoneStr
           /\ IF ~is_available(engine)
              THEN /\ story_history' = history
                   /\ last_generation' = None
                   /\ UNCHANGED <<current_options, story_started, waiting_for_choice,
                                  last_story_error, user_stories>>
              ELSE \E outcome \in GenerateOutcomes(engine.api_name,
                                    {DemoStartResponse(StartPromptWords(character))}) :
                     LET result == start_story(engine, outcome)
                         started == add_story_chunk(history, result.story_text, result.options)
                     IN  /\ (user_data # "guest") => Len(user_stories) < MaxStories
                         /\ story_history' = started
                         /\ current_options' = result.options
                         /\ story_started' = TRUE
                         /\ waiting_for_choice' = TRUE
                         /\ user_stories' = auto_save(user_stories, started, user_data, NoneStr)
                         /\ last_story_error' = NoneStr
                         /\ last_generation' = outcome
    /\ api_configured' = api_ready(refresh_api_keys(valid))
    /\ last_op' = "start_new_story"
    /\ UNCHANGED <<authenticated, user_data, current_character, show_character_form>>
    /\ UNCHANGED <<parse_vars, retry_vars, unit_vars, config_vars>>

\* make_decision(choice_index), reached from the "Make Decision" button that
\* display_paginated_story shows under the newest chapter
make_decision(valid, choice_index, init_ok) ==
    /\ PageShown(refresh_api_keys(valid))
    /\ DecisionInterfaceShown
    /\ Len(story_history.story_chunks) < MaxChunks
    /\ Len(story_history.decisions) < MaxDecisions
    /\ Inserts(story_history, user_data, current_story_id) => Len(user_stories) < MaxStories
    /\ last_op' = "make_decision"
    /\ IF current_options = <<>> \/ choice_index >= Len(current_options)
       THEN \* "Invalid choice selected."
            /\ last_generation' = None
            /\ UNCHANGED <<story_history, current_options, waiting_for_choice,
                           last_story_error, user_stories>>
       ELSE IF ~IndexInRange(current_options, choice_index)
       THEN \* current_options[choice_index] raises IndexError
            /\ last_generation' = None
            /\ UNCHANGED <<story_history, current_options, waiting_for_choice,
                           last_story_error, user_stories>>
       ELSE LET chosen_option == PyIndex(current_options, choice_index)
                decided == add_decision(story_history, chosen_option,
                                        current_options, choice_index)
                engine  == _initialize_client(demo_mode, refresh_api_keys(valid),
                                              {}, init_ok)
            IN  IF ~is_available(engine)
                THEN /\ story_history' = decided
                     /\ last_generation' = None
                     /\ UNCHANGED <<current_options, waiting_for_choice,
                                    last_story_error, user_stories>>
                ELSE \E outcome \in GenerateOutcomes(engine.api_name, DemoContinuations) :
                       LET result == continue_story(engine, outcome)
                           continued == add_story_chunk(decided, result.story_text,
                                                        result.options)
                       IN  /\ story_history' = continued
                           /\ current_options' = result.options
                           /\ waiting_for_choice' = TRUE
                           /\ user_stories' = auto_save(user_stories, continued,
                                                        user_data, current_story_id)
                           /\ last_story_error' = NoneStr
                           /\ last_generation' = outcome
    /\ api_configured' = api_ready(refresh_api_keys(valid))
    /\ UNCHANGED <<authenticated, user_data, current_character, story_started,
                   show_character_form, current_story_id>>
    /\ UNCHANGED <<parse_vars, retry_vars, unit_vars, config_vars>>

Init ==
    /\ SessionInit
    /\ ParseIdle
    /\ RetryIdle
    /\ UnitIdle

Next ==
    \/ \E u \in RegisteredUsers : Login(u)
    \/ ContinueAsGuest
    \/ Logout
    \/ \E i \in 1..Len(user_stories) : LoadUserStory(i)
    \/ \E valid \in SUBSET api_keys : PageRun(valid)
    \/ \E valid \in SUBSET api_keys : ResetApiConfiguration(valid)
    \/ \E valid \in SUBSET api_keys : ChangeApiProvider(valid)
    \/ \E valid \in SUBSET api_keys, api \in ProviderChoices, is_valid \in BOOLEAN :
            ValidateAndConnect(valid, api, is_valid)
    \/ \E valid \in SUBSET api_keys : ActivateDemoMode(valid)
    \/ \E valid \in SUBSET api_keys, character \in FormInputs : CreateCharacter(valid, character)
    \/ \E valid \in SUBSET api_keys : EditCharacter(valid)
    \/ \E valid \in SUBSET api_keys : create_new_character(valid)
    \/ \E valid \in SUBSET api_keys : restart_story(valid)
    \/ \E valid \in SUBSET api_keys : SaveStory(valid)
    \/ \E valid \in SUBSET api_keys, revalid \in SUBSET api_keys, init_ok \in InitOkSets :
            start_new_story(valid, revalid, init_ok)
    \/ \E valid \in SUBSET api_keys, choice_index \in ChoiceIndexes, init_ok \in InitOkSets :
            make_decision(valid, choice_index, init_ok)

Spec == Init /\ [][Next]_vars

----------------------------------------------------------------------------
(* auth.py: the user_stories table, and the saves app.py makes into it *)

MaxRows == 2
MaxStarts == 2
MaxStoreChunks == 2

\* what no step at the story table touches
table_others ==
    <<parse_vars, retry_vars, client_vars, character_vars, history_vars, template_vars,
      engine_vars, generate_vars, credential_vars, chunk_id_vars, shared_vars, page_vars, auth_vars, session_vars,
      store_vars, config_vars>>

\* the accounts, and the user ids a session can carry
StoreUsers == {"u1", "u2"}
SessionUsers == StoreUsers \cup {"guest"}

\* the rows a WHERE user_id = ? AND story_id = ? AND is_active = TRUE selects
MatchingRows(rows, user_id, story_id) ==
    {i \in 1..Len(rows) :
        rows[i].user_id = user_id /\ rows[i].story_id = story_id /\ rows[i].is_active}

\* auth.load_user_story: story_data of the selected row, or None
auth_load_user_story(rows, user_id, story_id) ==
    IF MatchingRows(rows, user_id, story_id) = {} THEN None
    ELSE rows[CHOOSE i \in MatchingRows(rows, user_id, story_id) : TRUE].story_data

\* auth.delete_user_story: the soft delete
delete_user_story(rows, user_id, story_id) ==
    [i \in 1..Len(rows) |->
        IF i \in MatchingRows(rows, user_id, story_id)
        THEN [rows[i] EXCEPT !.is_active = FALSE]
        ELSE rows[i]]

\* `cursor.rowcount > 0` of update_user_story and delete_user_story
rows_affected(rows, user_id, story_id) == MatchingRows(rows, user_id, story_id) # {}

\* auth.get_user_stories: the story ids of the rows listed for user_id
get_user_stories(rows, user_id) ==
    {rows[i].story_id : i \in {j \in 1..Len(rows) : rows[j].user_id = user_id /\ rows[j].is_active}}

\* the story ids a call can name: those of the table and one that is in no row
StoryIds(rows) == {rows[i].story_id : i \in 1..Len(rows)} \cup {"story-0"}

\* the session_id start_new_story gives the n-th story of the session
StoreSessionId(n) == "Li Wei_20250101_1200" \o TwoDigits(n)

\* a chunk of the story and the data an update call writes
StoreChunkText == "You enter a forest."
StoreOptions == <<"Go left", "Go right", "Climb a tree", "Call for help">>
StoreData == to_json(add_story_chunk(StoryHistory("Mei_20250101_120000", "Mei", "fantasy"),
                                     "The gate opens.", StoreOptions))

InitStore ==
    /\ s_rows = <<>>
    /\ s_user \in SessionUsers
    /\ s_history = None
    /\ s_story_id = NoneStr
    /\ s_starts = 0
    /\ s_call = None
    /\ ClientIdle
    /\ CharacterIdle
    /\ HistoryIdle
    /\ TemplateIdle
    /\ EngineIdle
    /\ GenerateIdle
    /\ CredentialIdle
    /\ ChunkIdIdle
    /\ SharedIdle
    /\ PageIdle
    /\ AuthIdle
    /\ ParseIdle
    /\ RetryIdle
    /\ SessionInit

\* logout and login of another account, or "Continue as Guest", in the same
\* browser session: current_story_id is not reset by the logout
StoreSignIn(user_id) ==
    /\ s_user' = user_id
    /\ s_history' = None
    /\ s_call' = None
    /\ UNCHANGED <<s_rows, s_story_id, s_starts>>
    /\ UNCHANGED table_others

\* start_new_story with a generated opening: new history, current_story_id
\* None, first chunk, auto-save
StoreStart ==
    /\ Len(s_rows) < MaxRows
    /\ s_starts < MaxStarts
    /\ LET history == add_story_chunk(
                          StoryHistory(StoreSessionId(s_starts + 1), "Li Wei", "cultivation"),
                          StoreChunkText, StoreOptions)
       IN  /\ s_history' = history
           /\ s_rows' = auto_save(s_rows, history, s_user, NoneStr)
    /\ s_story_id' = NoneStr
    /\ s_starts' = s_starts + 1
    /\ s_call' = None
    /\ UNCHANGED s_user
    /\ UNCHANGED table_others

\* make_decision with a generated continuation: decision, chunk, auto-save
StoreDecide ==
    /\ s_history # None
    /\ Len(s_history.story_chunks) < MaxStoreChunks
    /\ Len(s_rows) < MaxRows
    /\ LET history == add_story_chunk(
                          add_decision(s_history, StoreOptions[1], StoreOptions, 0),
                          StoreChunkText, StoreOptions)
       IN  /\ s_history' = history
           /\ s_rows' = auto_save(s_rows, history, s_user, s_story_id)
    /\ s_call' = None
    /\ UNCHANGED <<s_user, s_story_id, s_starts>>
    /\ UNCHANGED table_others

\* main(), "Save Story": shown to registered users while a story is running
StoreSave ==
    /\ s_history # None
    /\ s_user # "guest"
    /\ Len(s_rows) < MaxRows
    /\ s_rows' = save_current_story(s_rows, s_history, s_user, s_story_id)
    /\ s_call' = None
    /\ UNCHANGED <<s_user, s_history, s_story_id, s_starts>>
    /\ UNCHANGED table_others

\* app.py load_user_story for an entry of the sidebar list
StoreLoad(story_id) ==
    /\ s_user # "guest"
    /\ LET story_data == auth_load_user_story(s_rows, s_user, story_id)
       IN  IF story_data = None
           THEN UNCHANGED <<s_history, s_story_id>>
           ELSE /\ s_history' = from_json(story_data)
                /\ s_story_id' = story_id
    /\ s_call' = None
    /\ UNCHANGED <<s_rows, s_user, s_starts>>
    /\ UNCHANGED table_others

\* direct calls of the UserAuth story methods with any user id and story id
AuthLoadUserStory(user_id, story_id) ==
    /\ s_call' = [op |-> "load_user_story", user_id |-> user_id, story_id |-> story_id,
                  result |-> auth_load_user_story(s_rows, user_id, story_id)]
    /\ UNCHANGED <<s_rows, s_user, s_history, s_story_id, s_starts>>
    /\ UNCHANGED table_others

AuthUpdateUserStory(user_id, story_id, story_data) ==
    /\ s_rows' = update_user_story(s_rows, user_id, story_id, story_data)
    /\ s_call' = [op |-> "update_user_story", user_id |-> user_id, story_id |-> story_id,
                  result |-> rows_affected(s_rows, user_id, story_id)]
    /\ UNCHANGED <<s_user, s_history, s_story_id, s_starts>>
    /\ UNCHANGED table_others

AuthDeleteUserStory(user_id, story_id) ==
    /\ s_rows' = delete_user_story(s_rows, user_id, story_id)
    /\ s_call' = [op |-> "delete_user_story", user_id |-> user_id, story_id |-> story_id,
                  result |-> rows_affected(s_rows, user_id, story_id)]
    /\ UNCHANGED <<s_user, s_history, s_story_id, s_starts>>
    /\ UNCHANGED table_others

AuthGetUserStories(user_id) ==
    /\ s_call' = [op |-> "get_user_stories", user_id |-> user_id, story_id |-> NoneStr,
                  result |-> get_user_stories(s_rows, user_id)]
    /\ UNCHANGED <<s_rows, s_user, s_history, s_story_id, s_starts>>
    /\ UNCHANGED table_others

NextStore ==
    \/ \E user_id \in SessionUsers : StoreSignIn(user_id)
    \/ StoreStart
    \/ StoreDecide
    \/ StoreSave
    \/ \E story_id \in StoryIds(s_rows) : StoreLoad(story_id)
    \/ \E user_id \in StoreUsers, story_id \in StoryIds(s_rows) :
            AuthLoadUserStory(user_id, story_id)
    \/ \E user_id \in StoreUsers, story_id \in StoryIds(s_rows) :
            AuthUpdateUserStory(user_id, story_id, StoreData)
    \/ \E user_id \in StoreUsers, story_id \in StoryIds(s_rows) :
            AuthDeleteUserStory(user_id, story_id)
    \/ \E user_id \in StoreUsers : AuthGetUserStories(user_id)

SpecStore == InitStore /\ [][NextStore]_vars

----------------------------------------------------------------------------
(* app.py and config.py: several browser sessions of one Streamlit process.
   os.environ and the module-level `config` belong to the process,
   st.session_state to the browser session *)

Sessions == {"A", "B"}

\* what no step of a browser session on the configuration touches
shared_others ==
    <<parse_vars, retry_vars, client_vars, character_vars, history_vars, template_vars,
      engine_vars, generate_vars, credential_vars, chunk_id_vars, table_vars,
      page_vars, auth_vars, session_vars, store_vars, config_vars>>

\* a fresh process, no key in the environment, two browser sessions opened
InitShared ==
    /\ x_keys = {}
    /\ x_demo = FALSE
    /\ x_configured = [s \in Sessions |-> FALSE]
    /\ x_backend = [s \in Sessions |-> NoneStr]
    /\ x_last = None
    /\ ClientIdle
    /\ CharacterIdle
    /\ HistoryIdle
    /\ TemplateIdle
    /\ EngineIdle
    /\ GenerateIdle
    /\ CredentialIdle
    /\ ChunkIdIdle
    /\ TableIdle
    /\ PageIdle
    /\ AuthIdle
    /\ ParseIdle
    /\ RetryIdle
    /\ SessionInit

\* setup_api_configuration, "Reset API Configuration": shown while
\* config.available_apis is not empty
SharedReset(s, valid) ==
    /\ _validate_all_apis(x_keys, valid) # <<>>
    /\ x_keys' = {}
    /\ x_demo' = FALSE
    /\ x_configured' = [x_configured EXCEPT ![s] = FALSE]
    /\ x_last' = [session |-> s, op |-> "reset"]
    /\ UNCHANGED x_backend
    /\ UNCHANGED shared_others

\* setup_api_configuration, "Change API Provider"
SharedChangeProvider(s, valid) ==
    /\ _validate_all_apis(x_keys, valid) = <<>>
    /\ x_configured[s]
    /\ x_configured' = [x_configured EXCEPT ![s] = FALSE]
    /\ x_demo' = FALSE
    /\ x_last' = [session |-> s, op |-> "change"]
    /\ UNCHANGED <<x_keys, x_backend>>
    /\ UNCHANGED shared_others

\* setup_api_configuration, "Validate & Connect" for a provider
SharedSetKey(s, valid, api_name, is_valid) ==
    /\ _validate_all_apis(x_keys, valid) = <<>>
    /\ ~x_configured[s]
    /\ IF is_valid
       THEN /\ x_keys' = x_keys \cup {api_name}
            /\ x_configured' = [x_configured EXCEPT ![s] = TRUE]
       ELSE UNCHANGED <<x_keys, x_configured>>
    /\ x_last' = [session |-> s, op |-> "set_key"]
    /\ UNCHANGED <<x_demo, x_backend>>
    /\ UNCHANGED shared_others

\* setup_api_configuration, "Activate Demo Mode"
SharedActivateDemo(s, valid) ==
    /\ _validate_all_apis(x_keys, valid) = <<>>
    /\ ~x_configured[s]
    /\ x_demo' = TRUE
    /\ x_configured' = [x_configured EXCEPT ![s] = TRUE]
    /\ x_last' = [session |-> s, op |-> "demo"]
    /\ UNCHANGED <<x_keys, x_backend>>
    /\ UNCHANGED shared_others

\* a page run of a configured session that generates: get_story_engine()
\* builds a StoryEngine from the environment and the Config of the process
SharedGenerate(s, valid, init_ok) ==
    /\ _validate_all_apis(x_keys, valid) # <<>> \/ x_configured[s]
    /\ x_configured' = [x_configured EXCEPT ![s] = TRUE]
    /\ x_backend' = [x_backend EXCEPT ![s] =
            _initialize_client(x_demo, _validate_all_apis(x_keys, valid), {}, init_ok).api_name]
    /\ x_last' = [session |-> s, op |-> "generate"]
    /\ UNCHANGED <<x_keys, x_demo>>
    /\ UNCHANGED shared_others

NextShared ==
    \/ \E s \in Sessions, valid \in SUBSET x_keys : SharedReset(s, valid)
    \/ \E s \in Sessions, valid \in SUBSET x_keys : SharedChangeProvider(s, valid)
    \/ \E s \in Sessions, valid \in SUBSET x_keys, api_name \in Range(APIs), is_valid \in BOOLEAN :
            SharedSetKey(s, valid, api_name, is_valid)
    \/ \E s \in Sessions, valid \in SUBSET x_keys : SharedActivateDemo(s, valid)
    \/ \E s \in Sessions, valid \in SUBSET x_keys, init_ok \in InitOkSets :
            SharedGenerate(s, valid, init_ok)

SpecShared == InitShared /\ [][NextShared]_vars

----------------------------------------------------------------------------
(* app.py: pagination of the story display *)

MaxPageChapters == 6

DefaultChaptersPerPage == 3

\* the options of the "Chapters per page" selectbox
ChaptersPerPageOptions == {1, 2, 3, 5, 10}

page_others ==
    <<parse_vars, retry_vars, client_vars, character_vars, history_vars, template_vars,
      engine_vars, generate_vars, credential_vars, chunk_id_vars, table_vars, shared_vars,
      auth_vars, session_vars, store_vars, config_vars>>

\* (total_chapters - 1) // chapters_per_page + 1
total_pages(total_chapters, chapters_per_page) ==
    (total_chapters - 1) \div chapters_per_page + 1

\* display_paginated_story without its first check, a page number above the
\* last page stays
valid_page_NoUpper(current_page, pages) ==
    IF current_page < 1 THEN 1 ELSE current_page

\* display_paginated_story, "Ensure current page is valid"
valid_page(current_page, pages) ==
    LET capped == IF current_page > pages THEN pages ELSE current_page
    IN  IF capped < 1 THEN 1 ELSE capped

\* range(start_idx, end_idx) of the page shown
page_chapters(current_page, chapters_per_page, total_chapters) ==
    LET start_idx == (current_page - 1) * chapters_per_page
        end_idx   == Min(start_idx + chapters_per_page, total_chapters)
    IN  start_idx .. (end_idx - 1)

\* the page display_paginated_story works with in the current run
ShownPage == valid_page(p_current_page, total_pages(p_chapters, p_per_page))

InitPages ==
    /\ p_chapters = 0
    /\ p_per_page = DefaultChaptersPerPage
    /\ p_current_page = 1
    /\ p_last = None
    /\ ClientIdle
    /\ CharacterIdle
    /\ HistoryIdle
    /\ TemplateIdle
    /\ EngineIdle
    /\ GenerateIdle
    /\ CredentialIdle
    /\ ChunkIdIdle
    /\ TableIdle
    /\ SharedIdle
    /\ AuthIdle
    /\ ParseIdle
    /\ RetryIdle
    /\ SessionInit

PageStep(op, chapters, page) ==
    /\ p_chapters' = chapters
    /\ p_current_page' = page
    /\ p_last' = [op |-> op, found |-> p_current_page]
    /\ UNCHANGED p_per_page
    /\ UNCHANGED page_others

\* display_paginated_story, no button pressed
DisplayPaginatedStory ==
    /\ p_chapters >= 1
    /\ PageStep("display", p_chapters, ShownPage)

\* display_paginated_story, "First"
PageFirst ==
    /\ p_chapters >= 1
    /\ total_pages(p_chapters, p_per_page) > 1
    /\ ShownPage # 1
    /\ PageStep("first", p_chapters, 1)

\* display_paginated_story, "Prev"
PagePrev ==
    /\ p_chapters >= 1
    /\ total_pages(p_chapters, p_per_page) > 1
    /\ ShownPage # 1
    /\ PageStep("prev", p_chapters, ShownPage - 1)

\* display_paginated_story, "Next"
PageNext ==
    /\ p_chapters >= 1
    /\ total_pages(p_chapters, p_per_page) > 1
    /\ ShownPage # total_pages(p_chapters, p_per_page)
    /\ PageStep("next", p_chapters, ShownPage + 1)

\* display_paginated_story, "Last"
PageLast ==
    /\ p_chapters >= 1
    /\ total_pages(p_chapters, p_per_page) > 1
    /\ ShownPage # total_pages(p_chapters, p_per_page)
    /\ PageStep("last", p_chapters, total_pages(p_chapters, p_per_page))

\* display_paginated_story, "Jump to Latest Chapter"
PageJump ==
    /\ p_chapters >= 1
    /\ ShownPage < total_pages(p_chapters, p_per_page)
    /\ p_chapters > p_per_page
    /\ PageStep("jump", p_chapters, total_pages(p_chapters, p_per_page))

\* make_decision with a generated continuation; its button is shown on the
\* last page only
PageDecide ==
    /\ p_chapters >= 1
    /\ p_chapters < MaxPageChapters
    /\ ShownPage = total_pages(p_chapters, p_per_page)
    /\ PageStep("make_decision", p_chapters + 1, total_pages(p_chapters + 1, p_per_page))

\* start_new_story with a generated opening
PageStart ==
    /\ p_chapters = 0
    /\ PageStep("start_new_story", 1, 1)

\* load_user_story: the page number of the story shown before stays
PageLoad(chapters) ==
    /\ chapters \in 0..MaxPageChapters
    /\ PageStep("load_user_story", chapters, p_current_page)

\* restart_story, create_new_character
PageRestart ==
    /\ p_chapters >= 1
    /\ PageStep("restart_story", 0, 1)

\* main, the "Chapters per page" selectbox
PageSelect(new_chapters_per_page) ==
    /\ new_chapters_per_page # p_per_page
    /\ p_per_page' = new_chapters_per_page
    /\ p_current_page' =
            IF /\ p_chapters >= 1
               /\ p_current_page > total_pages(p_chapters, new_chapters_per_page)
            THEN total_pages(p_chapters, new_chapters_per_page)
            ELSE p_current_page
    /\ p_last' = [op |-> "select", found |-> p_current_page]
    /\ UNCHANGED p_chapters
    /\ UNCHANGED page_others

NextPages ==
    \/ DisplayPaginatedStory
    \/ PageFirst
    \/ PagePrev
    \/ PageNext
    \/ PageLast
    \/ PageJump
    \/ PageDecide
    \/ PageStart
    \/ \E chapters \in 0..MaxPageChapters : PageLoad(chapters)
    \/ PageRestart
    \/ \E new_chapters_per_page \in ChaptersPerPageOptions : PageSelect(new_chapters_per_page)

SpecPages == InitPages /\ [][NextPages]_vars

----------------------------------------------------------------------------
(* auth.py: login, sessions and logout; app.py: the login form, the
   authentication check of every page run and the Logout button *)

MaxSessions == 2
MaxClockDays == 45
DaysPerTick == 15

\* create_session(user_id, duration_days = 30)
DurationDays == 30

auth_others ==
    <<parse_vars, retry_vars, client_vars, character_vars, history_vars, template_vars,
      engine_vars, generate_vars, credential_vars, chunk_id_vars, table_vars, shared_vars,
      page_vars, session_vars, store_vars, config_vars>>

\* hashlib.pbkdf2_hmac('sha256', password, salt, 100000).hex(), kept symbolic
_hash_password(password, salt) == <<"pbkdf2_hmac_sha256", password, salt>>

\* the rows of the users table: register_user stores salt and hash
UsersTable ==
    { [user_id |-> "u1", username |-> "chidi", salt |-> "salt1",
       password_hash |-> _hash_password("secret1", "salt1")],
      [user_id |-> "u2", username |-> "amara", salt |-> "salt2",
       password_hash |-> _hash_password("secret2", "salt2")] }

Usernames == {"chidi", "amara", "nobody"}
Passwords == {"secret1", "secret2"}

\* the value of a key st.session_state does not hold
NoSessionKey == "<absent>"

\* str(uuid.uuid4()) of the next session
new_session_id(rows) == "session-" \o ToString(Len(rows) + 1)

\* create_session: the new table and the id returned; "" when the INSERT
\* raises
create_session(rows, user_id, clock, insert_ok) ==
    IF insert_ok
    THEN [rows |-> Append(rows, [session_id |-> new_session_id(rows), user_id |-> user_id,
                                  expires_at |-> clock + DurationDays, is_active |-> TRUE]),
          session_id |-> new_session_id(rows)]
    ELSE [rows |-> rows, session_id |-> ""]

\* login_user: (success, user_data) and the new table
login_user(rows, username, password, clock, insert_ok) ==
    LET found == {u \in UsersTable : u.username = username}
    IN  IF found = {}
        THEN [success |-> FALSE, user_data |-> None, rows |-> rows]
        ELSE LET user    == CHOOSE u \in found : TRUE
                 created == create_session(rows, user.user_id, clock, insert_ok)
             IN  IF _hash_password(password, user.salt) = user.password_hash
                 THEN [success |-> TRUE,
                       user_data |-> [user_id |-> user.user_id, username |-> user.username,
                                      session_id |-> created.session_id],
                       rows |-> created.rows]
                 ELSE [success |-> FALSE, user_data |-> None, rows |-> rows]

\* validate_session: the user of an active session not yet expired, or None
validate_session(rows, session_id, clock) ==
    LET hits == {i \in DOMAIN rows :
                    /\ rows[i].session_id = session_id
                    /\ rows[i].is_active
                    /\ rows[i].expires_at > clock
                    /\ \E u \in UsersTable : u.user_id = rows[i].user_id}
    IN  IF hits = {}
        THEN None
        ELSE LET i == CHOOSE i \in hits : TRUE
                 user == CHOOSE u \in UsersTable : u.user_id = rows[i].user_id
             IN  [user_id |-> user.user_id, username |-> user.username,
                  session_id |-> session_id, expires_at |-> rows[i].expires_at]

\* logout_user where the session stays active
logout_user_NoUpdate(rows, session_id) == rows

\* logout_user: UPDATE user_sessions SET is_active = FALSE WHERE session_id = ?
logout_user(rows, session_id) ==
    [i \in DOMAIN rows |->
        IF rows[i].session_id = session_id
        THEN [rows[i] EXCEPT !.is_active = FALSE]
        ELSE rows[i]]

\* the session ids a caller can hold: those handed out, the empty one, None,
\* and one never handed out
KnownSessionIds ==
    {a_sessions[i].session_id : i \in DOMAIN a_sessions} \cup {"", NoneStr, "session-0"}

InitAuth ==
    /\ a_sessions = <<>>
    /\ a_clock = 0
    /\ a_result = None
    /\ a_logged_out = {}
    /\ a_ui = [authenticated |-> FALSE, user_data |-> None, session_id |-> NoSessionKey,
               story_history |-> FALSE, current_character |-> FALSE]
    /\ ClientIdle
    /\ CharacterIdle
    /\ HistoryIdle
    /\ TemplateIdle
    /\ EngineIdle
    /\ GenerateIdle
    /\ CredentialIdle
    /\ ChunkIdIdle
    /\ TableIdle
    /\ SharedIdle
    /\ PageIdle
    /\ ParseIdle
    /\ RetryIdle
    /\ SessionInit

\* display_login_form, "Login" submitted
DisplayLoginForm(username, password, insert_ok) ==
    LET r == login_user(a_sessions, username, password, a_clock, insert_ok)
    IN  /\ ~a_ui.authenticated
        /\ Len(a_sessions) < MaxSessions
        /\ a_sessions' = r.rows
        /\ a_result' = [op |-> "login_user", arg |-> username, success |-> r.success,
                        user_data |-> r.user_data]
        /\ a_ui' = IF r.success
                   THEN [a_ui EXCEPT !.authenticated = TRUE, !.user_data = r.user_data,
                                     !.session_id = r.user_data.session_id]
                   ELSE a_ui
        /\ UNCHANGED <<a_clock, a_logged_out>>
        /\ UNCHANGED auth_others

\* check_authentication of a page run
CheckAuthentication ==
    LET validated == validate_session(a_sessions, a_ui.session_id, a_clock)
    IN  /\ ~a_ui.authenticated
        /\ a_ui.session_id # NoSessionKey
        /\ a_result' = [op |-> "validate_session", arg |-> a_ui.session_id,
                        success |-> validated # None, user_data |-> validated]
        /\ a_ui' = IF validated # None
                   THEN [a_ui EXCEPT !.authenticated = TRUE, !.user_data = validated]
                   ELSE a_ui
        /\ UNCHANGED <<a_sessions, a_clock, a_logged_out>>
        /\ UNCHANGED auth_others

\* a signed-in user creates a character and starts a story
AuthStartStory ==
    /\ a_ui.authenticated
    /\ ~a_ui.story_history
    /\ a_ui' = [a_ui EXCEPT !.story_history = TRUE, !.current_character = TRUE]
    /\ a_result' = [op |-> "start_new_story", arg |-> NoneStr, success |-> TRUE,
                    user_data |-> None]
    /\ UNCHANGED <<a_sessions, a_clock, a_logged_out>>
    /\ UNCHANGED auth_others

\* display_user_profile, "Logout"; db_ok is whether the UPDATE went through
AppLogout(db_ok) ==
    /\ a_ui.authenticated
    /\ IF a_ui.session_id # NoSessionKey /\ db_ok
       THEN /\ a_sessions' = logout_user(a_sessions, a_ui.session_id)
            /\ a_logged_out' = a_logged_out \cup {a_ui.session_id}
       ELSE UNCHANGED <<a_sessions, a_logged_out>>
    /\ a_result' = [op |-> "logout", arg |-> a_ui.session_id, success |-> db_ok,
                    user_data |-> None]
    /\ a_ui' = [authenticated |-> FALSE, user_data |-> None, session_id |-> NoneStr,
                story_history |-> FALSE, current_character |-> FALSE]
    /\ UNCHANGED a_clock
    /\ UNCHANGED auth_others

\* auth.validate_session called with any id
ValidateSession(session_id) ==
    LET validated == validate_session(a_sessions, session_id, a_clock)
    IN  /\ a_result' = [op |-> "validate_session", arg |-> session_id,
                        success |-> validated # None, user_data |-> validated]
        /\ UNCHANGED <<a_sessions, a_clock, a_logged_out, a_ui>>
        /\ UNCHANGED auth_others

\* auth.logout_user called with any id, from another browser session
LogoutUser(session_id, db_ok) ==
    /\ IF db_ok
       THEN /\ a_sessions' = logout_user(a_sessions, session_id)
            /\ a_logged_out' = a_logged_out \cup {session_id}
       ELSE UNCHANGED <<a_sessions, a_logged_out>>
    /\ a_result' = [op |-> "logout_user", arg |-> session_id, success |-> db_ok,
                    user_data |-> None]
    /\ UNCHANGED <<a_clock, a_ui>>
    /\ UNCHANGED auth_others

\* time passes
AuthTick ==
    /\ a_clock < MaxClockDays
    /\ a_clock' = a_clock + DaysPerTick
    /\ UNCHANGED <<a_sessions, a_result, a_logged_out, a_ui>>
    /\ UNCHANGED auth_others

NextAuth ==
    \/ \E username \in Usernames, password \in Passwords, insert_ok \in BOOLEAN :
            DisplayLoginForm(username, password, insert_ok)
    \/ CheckAuthentication
    \/ AuthStartStory
    \/ \E db_ok \in BOOLEAN : AppLogout(db_ok)
    \/ \E session_id \in KnownSessionIds : ValidateSession(session_id)
    \/ \E session_id \in KnownSessionIds, db_ok \in BOOLEAN : LogoutUser(session_id, db_ok)
    \/ AuthTick

SpecAuth == InitAuth /\ [][NextAuth]_vars

----------------------------------------------------------------------------
(* Properties of the parser and of retry_with_backoff *)

\* C3: for any input string _parse_response returns one narrative string and
\* exactly 4 option strings, whether the delimiter is absent, present once or
\* several times, and whatever number of option lines follow it.
C3_ParserPostcondition ==
    p_result # None =>
        /\ DOMAIN p_result = {"story_text", "options"}
        /\ Len(p_result.story_text) >= 0
        /\ Len(p_result.options) = 4
        /\ \A i \in 1..4 : Len(p_result.options[i]) >= 1

\* a parsed text with the delimiter several times and more than 4 option lines
C3_Witness ==
    /\ p_result # None
    /\ Len(split(p_response, "DECISION_POINT")) > 2
    /\ Len(ExtractOptions(split(strip(split(p_response, "DECISION_POINT")[2]), "\n"))) > 4

\* the rate-limit indicators as the contract lists them
MatchesIndicator(msg) ==
    \/ Contains(lower(msg), "rate limit")
    \/ Contains(lower(msg), "429")
    \/ Contains(lower(msg), "quota")
    \/ Contains(lower(msg), "too many requests")

FailedRateLimited(outcome) == ~outcome.ok /\ MatchesIndicator(outcome.error)

\* C4: k rate-limit failures in a row (k <= max_retries) followed by a success
\* return the success value after exactly k sleeps, the i-th (from 0) lasting
\* base_delay * 2^i.
C4_RetryThenSuccess ==
    (r_calls # <<>> /\ Last(r_calls).ok) =>
        LET k == Len(r_calls) - 1
        IN  /\ k <= r_max_retries
            /\ \A i \in 1..k : FailedRateLimited(r_calls[i])
            /\ r_pc = "returned"
            /\ r_result = Last(r_calls).value
            /\ Len(r_sleeps) = k
            /\ \A i \in 0..(k - 1) : r_sleeps[i + 1] = r_base_delay * (2 ^ i)

\* two rate-limit failures, then success: slept base_delay then 2*base_delay
C4_Witness ==
    /\ r_pc = "returned"
    /\ Len(r_calls) = 3
    /\ r_calls[1].error = "429 Resource exhausted"
    /\ r_sleeps = <<r_base_delay, 2 * r_base_delay>>

\* C5: an error matching none of the rate-limit indicators propagates at once,
\* at whatever attempt it occurs: it is the raised error, func is not called
\* again and no sleep follows it.
C5_NonRateLimitPropagates ==
    (r_calls # <<>> /\ ~Last(r_calls).ok /\ ~MatchesIndicator(Last(r_calls).error)) =>
        /\ r_pc = "raised"
        /\ r_result = Last(r_calls).error
        /\ Len(r_sleeps) = Len(r_calls) - 1
        /\ \A i \in 1..(Len(r_calls) - 1) : FailedRateLimited(r_calls[i])

\* a non-rate-limit error on a later attempt that is not the last one
C5_Witness ==
    /\ r_pc = "raised"
    /\ Len(r_calls) = 2
    /\ r_max_retries >= 2
    /\ r_result = "usage limit reached"
    /\ Len(r_sleeps) = 1

\* C6: retry_with_backoff terminates; when every attempt fails with a
\* rate-limit error func is invoked exactly max_retries + 1 times with exactly
\* max_retries sleeps, and the last error is raised (max_retries = 0: the first
\* error, without sleeping).
C6_Exhaustion ==
    /\ <>(r_pc # "loop")
    /\ [](/\ Len(r_calls) <= Max(r_max_retries + 1, 0)
          /\ (/\ r_max_retries >= 0
              /\ r_pc # "loop"
              /\ \A i \in 1..Len(r_calls) : FailedRateLimited(r_calls[i]))
             => /\ Len(r_calls) = r_max_retries + 1
                /\ Len(r_sleeps) = r_max_retries
                /\ r_pc = "raised"
                /\ r_result = Last(r_calls).error)

\* all attempts failed with rate-limit errors, with at least three retries
C6_Witness ==
    /\ r_pc = "raised"
    /\ r_max_retries >= 3
    /\ Len(r_calls) = r_max_retries + 1
    /\ \A i \in 1..Len(r_calls) : FailedRateLimited(r_calls[i])

----------------------------------------------------------------------------
(* Properties of the session lifecycle *)

\* the last handler got an error from _generate_with_retry
GenerationFailed == last_generation # None /\ ~last_generation.ok

\* C1: in every reachable session state the history holds at most as many
\* decisions as chunks, whatever generations failed or found no engine
C1_DecisionsWithinChunks ==
    story_history # None =>
        Len(story_history.decisions) <= Len(story_history.story_chunks)

\* C2: a choice whose continuation fails keeps the recorded DecisionEntry,
\* appends no StoryChunk, leaves current_options as they were and the session
\* awaiting a choice
C2_FailedContinuation ==
    [][(last_op' = "make_decision" /\ last_generation' # None /\ ~last_generation'.ok) =>
          /\ Len(story_history'.decisions) = Len(story_history.decisions) + 1
          /\ story_history'.story_chunks = story_history.story_chunks
          /\ current_options' = current_options
          /\ waiting_for_choice']_vars

\* C7: an error raised by the backend during a start or a continuation is
\* reported to the lifecycle (last_story_error is set) and its message is
\* not the text of any chunk of the history
C7_ErrorReported ==
    (last_op \in {"start_new_story", "make_decision"} /\ GenerationFailed) =>
        /\ last_story_error # NoneStr
        /\ \A i \in 1..Len(story_history.story_chunks) :
              ~Contains(story_history.story_chunks[i].text, last_generation.error)

\* C8: while a started story awaits a choice, the history has a newest chunk,
\* that chunk carries exactly four options and current_options equals them
C8_AwaitingChoice ==
    (story_started /\ waiting_for_choice) =>
        /\ story_history # None
        /\ story_history.story_chunks # <<>>
        /\ Len(Last(story_history.story_chunks).decision_options) = 4
        /\ current_options = Last(story_history.story_chunks).decision_options

\* C9 as stated: a restart discards the history, the offered options and the
\* current character, and touches no persisted story
C9_RestartDiscardsCharacter ==
    [][last_op' = "restart_story" =>
          /\ story_history' = None
          /\ current_options' = <<>>
          /\ current_character' = None
          /\ user_stories' = user_stories]_vars

\* C9 amended: a restart discards the history and the offered options, ends
\* the story (not started, not awaiting a choice, no story id), keeps the
\* current character with the form closed, and touches no persisted story
C9_RestartKeepsCharacter ==
    [][last_op' = "restart_story" =>
          /\ story_history' = None
          /\ current_options' = <<>>
          /\ ~story_started'
          /\ ~waiting_for_choice'
          /\ current_story_id' = NoneStr
          /\ current_character' = current_character
          /\ current_character' # None
          /\ ~show_character_form'
          /\ user_stories' = user_stories]_vars

\* C9: a restart of a registered user's auto-saved story has happened
C9_Witness ==
    /\ last_op = "restart_story"
    /\ current_character # None
    /\ user_stories # <<>>

\* C10: every recorded DecisionEntry has 0 <= chosen_index <
\* len(options_available) and decision_text = options_available[chosen_index]
\* (so a choice with an index outside that range has recorded nothing)
C10_DecisionsInRange ==
    story_history # None =>
        \A i \in 1..Len(story_history.decisions) :
            LET d == story_history.decisions[i]
            IN  /\ 0 <= d.chosen_index
                /\ d.chosen_index < Len(d.options_available)
                /\ d.decision_text = d.options_available[d.chosen_index + 1]

----------------------------------------------------------------------------
(* config.py: client lookup *)

\* the backend has a client: one cached before the call or one that
\* initialises during it
C11_Initialises(api) == api \in c_call.cached \/ api \in c_call.init_ok

C11_Preferred ==
    /\ c_call.preferred_api \in Range(c_call.available)
    /\ C11_Initialises(c_call.preferred_api)

C11_Candidates == {i \in 1..Len(c_call.available) : C11_Initialises(c_call.available[i])}

\* C11: get_llm_client returns the preferred backend when it is available and
\* initialises; otherwise the first backend of available_apis, in list order,
\* that initialises; (None, None) exactly when no available backend
\* initialises; a returned identifier is a member of available_apis.
C11_ClientLookup ==
    c_call # None =>
        /\ C11_Preferred => c_call.api_name = c_call.preferred_api
        /\ (~C11_Preferred /\ C11_Candidates # {}) =>
                /\ c_call.api_name = c_call.available[
                        CHOOSE i \in C11_Candidates : \A j \in C11_Candidates : i <= j]
        /\ (c_call.api_name = NoneStr) <=> (C11_Candidates = {})
        /\ c_call.api_name # NoneStr => c_call.api_name \in Range(c_call.available)

\* C11 witness: the preferred backend is available but fails to initialise and
\* the fallback returns a later backend of a list of three
C11_Witness ==
    /\ c_call # None
    /\ Len(c_call.available) = 3
    /\ c_call.preferred_api = c_call.available[1]
    /\ ~C11_Initialises(c_call.preferred_api)
    /\ c_call.api_name = c_call.available[2]

\* C12: between two invalidations every call that resolves to a backend
\* returns the same client handle, and the backend's client is initialised
\* at most once.
C12_OneClientPerBackend ==
    \A api \in Range(APIs) :
        /\ Cardinality(c_returned[api]) <= 1
        /\ c_inits[api] <= 1

\* C12 witness: a call resolves to a backend that an earlier call since the
\* last invalidation already resolved to, and returns that call's handle
C12_Witness ==
    /\ c_call # None
    /\ c_call.api_name \in c_call.cached
    /\ c_returned[c_call.api_name] = {c_call.handle}
    /\ c_inits[c_call.api_name] = 1
    /\ c_call.handle < c_next

----------------------------------------------------------------------------
(* character.py: validation and prompt *)

\* C13 as stated: validate() succeeds exactly when the raw lengths of name,
\* background and goals are in [2,100], [10,1000] and [10,500] and world is
\* non-empty, also for values that begin or end with whitespace.
C13_RawLengths ==
    ch_valid # None =>
        (ch_valid.is_valid <=>
            /\ Len(ch_character.name) \in 2..100
            /\ Len(ch_character.background) \in 10..1000
            /\ Len(ch_character.goals) \in 10..500
            /\ ch_character.world # "")

\* the length of s without the whitespace at its two ends
C13_TrimmedLen(s) ==
    LET inner == {i \in 1..Len(s) : CharAt(s, i) \notin Whitespace}
    IN  IF inner = {} THEN 0
        ELSE (CHOOSE i \in inner : \A j \in inner : j <= i)
                - (CHOOSE i \in inner : \A j \in inner : i <= j) + 1

\* C13 amended: validate() succeeds exactly when the lengths without leading
\* and trailing whitespace reach the minimum 2 / 10 / 10, the raw lengths stay
\* within the maximum 100 / 1000 / 500, and world is non-empty.
C13_TrimmedMinimumRawMaximum ==
    ch_valid # None =>
        (ch_valid.is_valid <=>
            /\ C13_TrimmedLen(ch_character.name) >= 2
            /\ Len(ch_character.name) <= 100
            /\ C13_TrimmedLen(ch_character.background) >= 10
            /\ Len(ch_character.background) <= 1000
            /\ C13_TrimmedLen(ch_character.goals) >= 10
            /\ Len(ch_character.goals) <= 500
            /\ ch_character.world # "")

\* C13 witness: validate() has rejected a character whose raw lengths are all
\* within the limits and whose two-character name begins with a blank
C13_Witness ==
    /\ ch_valid # None
    /\ ch_character.name = " a"
    /\ Len(ch_character.background) \in 10..1000
    /\ Len(ch_character.goals) \in 10..500
    /\ ch_character.world # ""
    /\ ~ch_valid.is_valid

C14_WorldLine ==
    LET start == find(ch_prompt, "\nWorld: ") + 8
        rest == SubSeq(ch_prompt, start, Len(ch_prompt))
    IN  SubSeq(rest, 1, find(rest, "\n") - 1)

\* w is world with the first letter of every run of letters in upper case and
\* every other letter in lower case
C14_TitleCased(w, world) ==
    /\ Len(w) = Len(world)
    /\ \A i \in 1..Len(w) :
        LET c == CharAt(world, i)
            starts == i = 1 \/ ~IsCased(CharAt(world, i - 1))
        IN  CharAt(w, i) =
                IF ~IsCased(c) THEN c
                ELSE IF starts
                THEN (IF c \in Lowercase
                      THEN CHOOSE u \in DOMAIN UpperToLower : UpperToLower[u] = c
                      ELSE c)
                ELSE (IF c \in Lowercase THEN c ELSE UpperToLower[c])

----------------------------------------------------------------------------
(* decision.py: serialisation and recent context *)

C16_LastTexts(m, sep) ==
    LET k == Len(h_history.story_chunks)
    IN  Join([i \in 1..m |-> h_history.story_chunks[k - m + i].text], sep)

\* C16: get_recent_context(n), n >= 0, on a history of k chunks returns the
\* texts of the last min(n, k) chunks in order (joined by a blank line or
\* directly), whatever decisions are recorded; "" on an empty history.
C16_RecentContext ==
    h_context # None =>
        LET m == Min(h_context.num_chunks, Len(h_history.story_chunks))
        IN  \/ h_context.text = C16_LastTexts(m, "\n\n")
            \/ h_context.text = C16_LastTexts(m, "")

----------------------------------------------------------------------------
(* story_engine.py: world template resolution *)

\* the file the request names is present and can be read
C17_Stored ==
    /\ t_world \o ".txt" \in DOMAIN t_store
    /\ t_store[t_world \o ".txt"].exists
    /\ t_store[t_world \o ".txt"].readable

\* C17: load_world_template(w) returns for every w: the stored template (its
\* text without surrounding whitespace) when the file exists and is readable,
\* otherwise the built-in description of w, otherwise that of 'fantasy'; a
\* read error also ends in the built-in description.
C17_TemplateResolution ==
    t_result # None =>
        /\ t_result.ok
        /\ C17_Stored => t_result.value = strip(t_store[t_world \o ".txt"].content)
        /\ (~C17_Stored /\ t_world \in DOMAIN DefaultTemplates) =>
                t_result.value = DefaultTemplates[t_world]
        /\ (~C17_Stored /\ t_world \notin DOMAIN DefaultTemplates) =>
                t_result.value = DefaultTemplates["fantasy"]

\* C17 witness: the file of an identifier without built-in description exists
\* but cannot be read, and the 'fantasy' description was returned
C17_Witness ==
    /\ t_result # None
    /\ t_world = "steampunk"
    /\ t_store["steampunk.txt"] = UnreadableFile
    /\ t_result = [ok |-> TRUE, value |-> "A magical realm with wizards, dragons, and epic quests."]

----------------------------------------------------------------------------
(* story_engine.py: what the parser scans, pads and falls back to *)

\* the text after the first occurrence of the delimiter
C18_AfterFirst ==
    SubSeq(p_response, find(p_response, "DECISION_POINT") + 14, Len(p_response))

\* C18: the narrative is the trimmed text before the first occurrence of the
\* delimiter, and every line after that occurrence, lines after a second or
\* later occurrence included, is scanned: the matching lines are the options,
\* in document order (up to the four that are kept).
C18_FirstOccurrenceOnly ==
    (p_result # None /\ Contains(p_response, "DECISION_POINT")) =>
        LET matched == ExtractOptions(split(C18_AfterFirst, "\n"))
        IN  /\ p_result.story_text =
                    strip(SubSeq(p_response, 1, find(p_response, "DECISION_POINT") - 1))
            /\ \A i \in 1..Min(4, Len(matched)) : p_result.options[i] = matched[i]

\* the text the parser scans: from the first occurrence of the delimiter up
\* to the next one, or to the end
C19_Scanned ==
    IF Contains(C18_AfterFirst, "DECISION_POINT")
    THEN SubSeq(C18_AfterFirst, 1, find(C18_AfterFirst, "DECISION_POINT") - 1)
    ELSE C18_AfterFirst

\* C19: with the delimiter present and k matching option lines in the scanned
\* text, the options are: for k < 4 the k matches followed by the first 4 - k
\* entries of the fixed list; for k > 4 the first 4 matches; for k = 4 the
\* matches unchanged.
C19_PadOrTruncate ==
    (p_result # None /\ Contains(p_response, "DECISION_POINT")) =>
        LET matched == ExtractOptions(split(C19_Scanned, "\n"))
            k == Len(matched)
            fixed == <<"Take a different approach", "Wait and observe",
                       "Act decisively", "Seek help from others">>
        IN  /\ k < 4 => p_result.options = matched \o [i \in 1..(4 - k) |-> fixed[i]]
            /\ k > 4 => p_result.options = [i \in 1..4 |-> matched[i]]
            /\ k = 4 => p_result.options = matched

\* C19 witness: two option lines follow the delimiter and the first two
\* entries of the fixed list fill the result
C19_Witness ==
    /\ p_result # None
    /\ Contains(p_response, "DECISION_POINT")
    /\ Len(ExtractOptions(split(C19_Scanned, "\n"))) = 2
    /\ p_result.options[2] = "Go right"
    /\ p_result.options[3] = "Take a different approach"
    /\ p_result.options[4] = "Wait and observe"

\* C20: a text without the delimiter is returned trimmed as the narrative,
\* with the fixed four-item fallback list.
C20_NoDelimiterFallback ==
    (p_result # None /\ ~Contains(p_response, "DECISION_POINT")) =>
        p_result = [story_text |-> rstrip(lstrip(p_response)),
                    options |-> <<"Continue cautiously", "Take a bold approach",
                                  "Seek more information", "Try a creative solution">>]

\* C20 witness: a text of option lines and narrative, padded with blanks and
\* without the delimiter, has been parsed
C20_Witness ==
    /\ p_result # None
    /\ ~Contains(p_response, "DECISION_POINT")
    /\ Len(p_response) > Len(p_result.story_text)
    /\ Contains(p_response, "1. Go left")
    /\ p_result.options[1] = "Continue cautiously"

----------------------------------------------------------------------------
(* story_engine.py: the demo backend and the prompts *)

\* C21: with DEMO_MODE = 'true' the engine is available whatever keys are
\* valid, it has asked for no backend client, generation stays with the demo
\* backend (no provider is contacted), and every start_story and
\* continue_story returns a narrative that is no error text, with exactly
\* four options.
C21_DemoBackend ==
    (e_demo /\ e_engine # None) =>
        /\ e_engine.api_name = "demo"
        /\ e_engine.created = NoneStr
        /\ e_call # None =>
            /\ e_call.backend = "demo"
            /\ Len(e_call.result.options) = 4
            /\ Len(e_call.result.story_text) > 0
            /\ ~Contains(e_call.result.story_text, "Error")

\* C21 witness: in demo mode, with all three keys valid, a continuation of a
\* sci_fi history has been generated
C21_Witness ==
    /\ e_demo
    /\ Len(e_available) = 3
    /\ e_call # None
    /\ e_call.op = "continue_story"
    /\ Len(e_call.result.options) = 4

\* the 1-based position of the first occurrence of sub at or after `from`
C22_FindFrom(s, sub, from) ==
    LET hits == {i \in from..(Len(s) - Len(sub) + 1) : SubSeq(s, i, i + Len(sub) - 1) = sub}
    IN  IF hits = {} THEN 0 ELSE CHOOSE i \in hits : \A j \in hits : i <= j

\* C22: every prompt sent for generation contains the world template, the
\* character profile block and the delimiter followed by four numbered option
\* slots; a continuation prompt has the recent context and the chosen action
\* after the instructions; a character without traits gets placeholder text.
C22_PromptContents ==
    (e_call # None /\ e_call.prompt # NoneStr) =>
        LET prompt == e_call.prompt
            delimiter == find(prompt, "\nDECISION_POINT\n1. [")
            slot2 == C22_FindFrom(prompt, "]\n2. [", delimiter + 1)
            slot3 == C22_FindFrom(prompt, "]  \n3. [", slot2 + 1)
            slot4 == C22_FindFrom(prompt, "]\n4. [", slot3 + 1)
            rules_end == find(prompt, "that matter to the ongoing narrative.")
            context == C22_FindFrom(prompt, "PREVIOUS STORY CONTEXT:\n"
                                              \o e_call.recent_context, rules_end + 1)
            action == C22_FindFrom(prompt, "PLAYER'S CHOSEN ACTION:\n"
                                             \o e_call.chosen_option, context + 1)
        IN  /\ Contains(prompt, "\n\n" \o e_call.world_template \o "\n\n")
            /\ Contains(prompt, "PROTAGONIST PROFILE:\nName: " \o e_call.character.name
                                  \o "\nWorld: ")
            /\ delimiter > 0 /\ slot2 > 0 /\ slot3 > 0 /\ slot4 > 0
            /\ rules_end > 0
            /\ e_call.op = "continue_story" => (context > 0 /\ action > 0)
            /\ e_call.character.traits = <<>> =>
                    Contains(prompt, "\nPersonality Traits: No specific traits defined\n")

\* C22 witness: a continuation prompt for the stand-in character, which has
\* no traits, built over a two-chunk history with one decision
C22_Witness ==
    /\ e_call # None
    /\ e_call.op = "continue_story"
    /\ e_call.prompt # NoneStr
    /\ e_call.character.traits = <<>>
    /\ Contains(e_call.recent_context, "[Last Decision: Go left]")
    /\ e_call.chosen_option = "Leave"

\* C23: a make_decision step that reaches the backend has appended the
\* DecisionEntry for the chosen option (taken from the options offered before
\* the step) whatever the backend answered; when the generation succeeded the
\* step also appended exactly one StoryChunk carrying the parsed options, so
\* that both len(decisions) and len(story_chunks) grew by exactly one.
C23_Generated ==
    /\ last_op' = "make_decision"
    /\ last_generation' # None

C23_DecisionRecorded ==
    /\ Len(story_history'.decisions) = Len(story_history.decisions) + 1
    /\ SubSeq(story_history'.decisions, 1, Len(story_history.decisions))
         = story_history.decisions
    /\ Last(story_history'.decisions).options_available = current_options
    /\ Last(story_history'.decisions).decision_text \in Range(current_options)

C23_ChunkAppended ==
    /\ Len(story_history'.story_chunks) = Len(story_history.story_chunks) + 1
    /\ SubSeq(story_history'.story_chunks, 1, Len(story_history.story_chunks))
         = story_history.story_chunks
    /\ Last(story_history'.story_chunks).decision_options
         = _parse_response(last_generation'.value).options
    /\ Last(story_history'.story_chunks).decision_options = current_options'

C23_DecisionThenChunk ==
    [][C23_Generated =>
         /\ C23_DecisionRecorded
         /\ last_generation'.ok => C23_ChunkAppended]_vars

\* C23 witness: a choice whose continuation was generated, one decision and
\* two chunks in the history, the newest chunk carrying options
C23_Witness ==
    /\ last_op = "make_decision"
    /\ last_generation # None /\ last_generation.ok
    /\ Len(story_history.decisions) = 1
    /\ Len(story_history.story_chunks) = 2
    /\ Last(story_history.story_chunks).decision_options # <<>>

\* C24: whenever start_new_story has just been invoked, the character it was
\* given passes validate() and its world is one of the known identifiers.
C24_KnownWorlds == {"cultivation", "martial_arts", "fantasy", "sci_fi", "modern_urban"}

C24_StartedWithValidCharacter ==
    last_op = "start_new_story" =>
        /\ validate(current_character)
        /\ current_character.world \in C24_KnownWorlds

\* C29: the history is append-only. A step of the session either is one of
\* restart / new character / logout (the history is dropped) or load (the
\* history is replaced by the saved one), or it keeps every chunk and every
\* decision there was in its place and adds at most one of each at the end;
\* a step on a StoryHistory of its own appends exactly one chunk and leaves
\* the decisions alone, or appends exactly one decision and leaves the chunks
\* alone.
C29_Chunks(history) == IF history = None THEN <<>> ELSE history.story_chunks

C29_Decisions(history) == IF history = None THEN <<>> ELSE history.decisions

C29_Extends(old, new) ==
    /\ Len(new) \in {Len(old), Len(old) + 1}
    /\ SubSeq(new, 1, Len(old)) = old

C29_Replaced ==
    \/ story_history' = None
    \/ \E i \in 1..Len(user_stories) : LoadUserStory(i)

C29_SessionStep ==
    \/ C29_Replaced
    \/ /\ C29_Extends(C29_Chunks(story_history), C29_Chunks(story_history'))
       /\ C29_Extends(C29_Decisions(story_history), C29_Decisions(story_history'))

C29_HistoryStep ==
    \/ h_history' = h_history
    \/ /\ h_history'.story_chunks # h_history.story_chunks
       /\ Len(h_history'.story_chunks) = Len(h_history.story_chunks) + 1
       /\ C29_Extends(h_history.story_chunks, h_history'.story_chunks)
       /\ h_history'.decisions = h_history.decisions
    \/ /\ h_history'.decisions # h_history.decisions
       /\ Len(h_history'.decisions) = Len(h_history.decisions) + 1
       /\ C29_Extends(h_history.decisions, h_history'.decisions)
       /\ h_history'.story_chunks = h_history.story_chunks

C29_AppendOnly == [][C29_SessionStep /\ C29_HistoryStep]_vars

\* C29 witness: a second choice was recorded behind the first one
C29_Witness ==
    /\ last_op = "make_decision"
    /\ story_history # None
    /\ Len(story_history.decisions) = 2
    /\ story_history.story_chunks # <<>>

\* C30: every decision is aligned with the chunk of the same position: chunk i
\* exists and decisions[i].options_available = story_chunks[i].decision_options.
C30_DecisionsAligned ==
    story_history # None =>
        \A i \in 1..Len(story_history.decisions) :
            /\ i <= Len(story_history.story_chunks)
            /\ story_history.decisions[i].options_available
                 = story_history.story_chunks[i].decision_options

\* C25: the inference-endpoint backend posts to its candidate models in list
\* order and to none after an acceptable answer; what it returns is generated
\* text of more than 50 characters, in the list shape and in the direct
\* shape alike; it raises exactly when no candidate produced such text.
C25_Text(answer) ==
    IF "error" \in DOMAIN answer THEN ""
    ELSE IF answer.status_code # 200 THEN ""
    ELSE IF "list" \in DOMAIN answer.json /\ answer.json.list # <<>>
    THEN (IF "generated_text" \in DOMAIN answer.json.list[1]
          THEN answer.json.list[1].generated_text ELSE "")
    ELSE IF "dict" \in DOMAIN answer.json /\ "generated_text" \in DOMAIN answer.json.dict
    THEN answer.json.dict.generated_text
    ELSE ""

C25_Acceptable(answer) == Len(strip(C25_Text(answer))) > 50

C25_OrderedUntilLongText ==
    g_api = "huggingface" =>
        /\ g_posted = SubSeq(models_to_try, 1, Len(g_posted))
        /\ Len(g_answers) = Len(g_posted)
        /\ \A i \in 1..(Len(g_answers) - 1) : ~C25_Acceptable(g_answers[i])
        /\ (g_result # None /\ g_result.ok) =>
              /\ C25_Acceptable(Last(g_answers))
              /\ g_result.value = C25_Text(Last(g_answers))
        /\ (g_result # None /\ ~g_result.ok) =>
              /\ Len(g_posted) = Len(models_to_try)
              /\ \A i \in 1..Len(g_answers) : ~C25_Acceptable(g_answers[i])

\* C26: a generate call that failed because of rate limiting (gemini: the
\* library raised a 429 / quota error; inference endpoint: every candidate
\* model answered HTTP 429 or the request raised an error mentioning 429) has
\* been retried max_retries times with the delays 1, 2, 4 before it surfaced.
C26_Limited(answer) ==
    IF "error" \in DOMAIN answer
    THEN Contains(answer.error, "429") \/ Contains(lower(answer.error), "quota")
    ELSE answer.status_code = 429

C26_RateLimited ==
    /\ g_answers # <<>>
    /\ \A i \in 1..Len(g_answers) : C26_Limited(g_answers[i])

C26_RetriedBeforeSurfacing ==
    (g_result # None /\ ~g_result.ok /\ C26_RateLimited) =>
        g_sleeps = <<1, 2, 4>>

\* C27: a client returned by get_llm_client for a backend was built from the
\* credential that is configured for that backend at the time of the call,
\* whatever interleaving of sessions came before.
C27_BuiltFromCurrentCredential ==
    (k_call # None /\ k_call.api_name # NoneStr) =>
        k_call.built_from = k_call.configured

\* C28: within one StoryHistory no two chunks carry the same chunk_id.
C28_DistinctChunkIds ==
    \A i \in 1..Len(u_chunks), j \in 1..Len(u_chunks) :
        i # j => u_chunks[i].chunk_id # u_chunks[j].chunk_id

\* C31: the saves of one in-progress story leave at most one active row for
\* it: the rows of the signed-in user that hold the running story (the
\* session_id start_new_story gave it) number at most one.
C31_RowsOfRunningStory ==
    {i \in 1..Len(s_rows) :
        /\ s_rows[i].is_active
        /\ s_rows[i].user_id = s_user
        /\ s_rows[i].story_data.session_id = s_history.session_id}

C31_OneRowPerStory ==
    s_history # None => Cardinality(C31_RowsOfRunningStory) <= 1

\* C34: a stored story is reachable by its owner only. A call of
\* load_user_story, update_user_story or delete_user_story that names a story
\* saved by another user returns None / False and leaves the table as it was;
\* for the owner's own active story it returns the data / True, and an update
\* or delete changes no other row; get_user_stories(u) lists stories of u only.
C34_Owner(rows, story_id) ==
    {rows[i].user_id : i \in {j \in 1..Len(rows) : rows[j].story_id = story_id}}

C34_OthersUntouched(story_id) ==
    /\ Len(s_rows') = Len(s_rows)
    /\ \A i \in 1..Len(s_rows) : s_rows[i].story_id # story_id => s_rows'[i] = s_rows[i]

C34_Call ==
    LET call == s_call'
        foreign == call.user_id \notin C34_Owner(s_rows, call.story_id)
    IN  /\ call.op = "get_user_stories" =>
              /\ s_rows' = s_rows
              /\ \A i \in 1..Len(s_rows) :
                    s_rows[i].story_id \in call.result => s_rows[i].user_id = call.user_id
              /\ \A i \in 1..Len(s_rows) :
                    (s_rows[i].user_id = call.user_id /\ s_rows[i].is_active)
                        => s_rows[i].story_id \in call.result
        /\ call.op = "load_user_story" =>
              /\ s_rows' = s_rows
              /\ foreign => call.result = None
        /\ call.op \in {"update_user_story", "delete_user_story"} =>
              /\ C34_OthersUntouched(call.story_id)
              /\ foreign => (call.result = FALSE /\ s_rows' = s_rows)

C34_OwnerOnly == [][s_call' # None => C34_Call]_vars

\* C34 witness: u2 asked for an update of an active story that u1 saved,
\* got False, and the row still holds what u1 saved
C34_Witness ==
    /\ s_call # None
    /\ s_call.op = "update_user_story" /\ s_call.user_id = "u2"
    /\ s_call.result = FALSE
    /\ \E i \in 1..Len(s_rows) :
            /\ s_rows[i].story_id = s_call.story_id
            /\ s_rows[i].user_id = "u1" /\ s_rows[i].is_active
            /\ s_rows[i].story_data # StoreData

\* C32: an engine that reports itself available has a backend generation can
\* dispatch on (demo, gemini or huggingface), and no start_story or
\* continue_story of it ends in "Unsupported API".
C32_DispatchableBackend ==
    (e_engine # None /\ e_engine.api_name # NoneStr) =>
        /\ e_engine.api_name \in {"demo", "gemini", "huggingface"}
        /\ e_call # None => ~Contains(e_call.result.story_text, "Unsupported API")

\* C33: a configuration action of one browser session (demo mode, reset, a
\* new key) does not change the backend that another, already configured
\* session gets for its next generation (every key validating, every client
\* initialising).
C33_NextBackend(keys, demo) ==
    _initialize_client(demo, _validate_all_apis(keys, keys), {}, Range(APIs)).api_name

C33_ConfigurationOps == {"demo", "reset", "set_key"}

C33_OtherSessionsUnaffected ==
    [][(/\ x_last' # None
        /\ x_last'.op \in C33_ConfigurationOps
        /\ \E a \in Sessions \ {x_last'.session} : x_configured[a])
       => C33_NextBackend(x_keys', x_demo') = C33_NextBackend(x_keys, x_demo)]_vars

\* C38: with t >= 1 chapters and c chapters per page, once
\* display_paginated_story has run the current page lies in 1..total_pages
\* with total_pages = (t-1) div c + 1, every chapter index 0..t-1 is shown
\* on exactly one page, and after a successful decision the current page is
\* the last one, which shows the new chapter.
C38_Pages == 1 .. ((p_chapters - 1) \div p_per_page + 1)

C38_OnePageEach ==
    \A i \in 0 .. (p_chapters - 1) :
        Cardinality({p \in C38_Pages : i \in page_chapters(p, p_per_page, p_chapters)}) = 1

C38_Paginated ==
    /\ (p_last # None /\ p_last.op = "display" /\ p_chapters >= 1) =>
            /\ p_current_page \in C38_Pages
            /\ C38_OnePageEach
    /\ (p_last # None /\ p_last.op = "make_decision") =>
            /\ p_current_page = (p_chapters - 1) \div p_per_page + 1
            /\ (p_chapters - 1) \in page_chapters(p_current_page, p_per_page, p_chapters)

\* C38 witness: the display found a page number above the last page of a
\* story of several pages and brought it back.
C38_Witness ==
    /\ p_last # None
    /\ p_last.op = "display"
    /\ p_last.found > p_current_page
    /\ p_current_page > 1

\* C35: a login reported as successful returns a non-empty session id of a
\* session that was created for that user, and that session validates to
\* the user as long as it is neither logged out nor expired.
C35_ValidSessionOf(returned) ==
    \E i \in DOMAIN a_sessions :
        /\ a_sessions[i].session_id = returned.session_id
        /\ a_sessions[i].user_id = returned.user_id
        /\ \/ a_sessions[i].is_active
           \/ returned.session_id \in a_logged_out
        /\ (a_sessions[i].is_active /\ a_sessions[i].expires_at > a_clock) =>
                validate_session(a_sessions, returned.session_id, a_clock) # None

C35_LoginHasSession ==
    (a_result # None /\ a_result.op = "login_user" /\ a_result.success) =>
        /\ a_result.user_data.session_id # ""
        /\ C35_ValidSessionOf(a_result.user_data)

\* C36: a session logout_user has reported as logged out never validates
\* again, whatever logins, logouts and page runs follow; after the
\* application's logout the UI session is unauthenticated and holds neither
\* a story history nor a character.
C36_Validates(session_id) ==
    \E i \in DOMAIN a_sessions :
        /\ a_sessions[i].session_id = session_id
        /\ a_sessions[i].is_active
        /\ a_sessions[i].expires_at > a_clock

C36_LoggedOutStaysOut ==
    /\ \A s \in a_logged_out : ~C36_Validates(s)
    /\ (a_result # None /\ a_result.op = "logout") =>
            /\ ~a_ui.authenticated
            /\ ~a_ui.story_history
            /\ ~a_ui.current_character

\* C36 witness: a session that was handed out at a login and later logged
\* out by the application, with a later login of the same user in place.
C36_Witness ==
    /\ "session-1" \in a_logged_out
    /\ a_ui.authenticated
    /\ a_ui.session_id = "session-2"
    /\ a_sessions[2].user_id = a_sessions[1].user_id
    /\ a_sessions[1].expires_at > a_clock

\* C37: while the session belongs to the guest, no step (start, decision,
\* manual save, auto-save or any other) inserts or updates a stored story,
\* and no stored story carries the guest's user id.
C37_GuestNeverStores ==
    /\ [](\A i \in DOMAIN user_stories : user_stories[i].user_id # "guest")
    /\ [][user_data = "guest" => user_stories' = user_stories]_vars

\* C37 witness: the guest has started a story and made a decision.
C37_Witness ==
    /\ user_data = "guest"
    /\ last_op = "make_decision"
    /\ story_history # None
    /\ Len(story_history.story_chunks) = 2
    /\ Len(story_history.decisions) >= 1

\* C39: a started story always has its history in memory, and make_decision
\* never runs without one, after any sequence of start, load, restart, new
\* character and logout.
C39_StartedHasHistory ==
    /\ [](story_started => story_history # None)
    /\ [][last_op' = "make_decision" => story_history # None]_vars

\* C39 witness: a signed-in user has loaded a stored story and made a
\* decision in it.
C39_Witness ==
    /\ story_started
    /\ story_history # None
    /\ user_data \in RegisteredUsers
    /\ current_story_id # NoneStr
    /\ last_op = "make_decision"
    /\ Len(story_history.decisions) >= 1

====
